---- MODULE Spec2Model ----
(***************************************************************************)
(* Model of the persistent WebSocket <-> TCP/TLS proxy of chatmud-client   *)
(* (server/src/proxy.ts, server/src/types.ts).                             *)
(*                                                                         *)
(* Representation                                                          *)
(*  - A Buffer is a sequence of items.  An item in 0..255 is one byte; an  *)
(*    item above 255 stands for that many consecutive bytes of ordinary    *)
(*    text (no byte of it is a telnet or NEW-ENVIRON framing byte), so     *)
(*    that chunks of several MiB can be offered to the replay buffer.      *)
(*    ByteLength gives the length the code sees.                           *)
(*  - A WebSocket frame is [bytes, json]: the raw bytes followed by the    *)
(*    JSON text of the message record in json (<<>> when there is none).   *)
(*  - A JavaScript value that reaches validateConfigValue is a record      *)
(*    [kind, n]: undefined, NaN, a number, or one of the other values      *)
(*    JSON.parse can put in a message field (null, true, false, a string   *)
(*    of digits, a string that is not a number).                           *)
(*  - Date.now() values are abstracted to Now; only their null-ness is     *)
(*    ever read by the proxy.                                              *)
(*  - The whole program state is the record World; every handler is an     *)
(*    operator from World to World and every action applies one handler.   *)
(***************************************************************************)
EXTENDS Integers, Sequences, FiniteSets, TLC

(***************************************************************************)
(* Bounds of the model                                                     *)
(***************************************************************************)
MaxSessions   == 1   \* session objects ever created
MaxTransports == 2   \* client WebSockets ever accepted
MaxChunks     == 3   \* upstream 'data' events over all sessions
MaxClientMsgs == 1   \* 'message' events over all client WebSockets
MaxWireFrames == 2   \* the same, in the wire-level specification
MaxFilterChunks == 3   \* upstream 'data' events, in the filter specification
MaxBrowserEvents == 5   \* frames one browser client handles
MaxNameLen == 2   \* characters of a variable name given to the reply builder
MaxValueLen == 2   \* bytes of a value given to the reply builder
MaxSockets == 3   \* WebSockets one browser client creates
\* CONFIG_LIMITS.BUFFER_LINES is {MIN: 10, MAX: 10000, DEFAULT: 1000} in the
\* source; the line limits are scaled down so that MaxChunks chunks reach them.
BufferLinesMin == 2
BufferLinesMax == 3

(***************************************************************************)
(* Program constants                                                       *)
(***************************************************************************)
MAX_BUFFER_SIZE_BYTES == 10485760

CONFIG_LIMITS ==
  [ PERSISTENCE_TIMEOUT |-> [MIN |-> 0, MAX |-> 43200000, DEFAULT |-> 300000],
    BUFFER_LINES        |-> [MIN |-> BufferLinesMin, MAX |-> BufferLinesMax,
                             DEFAULT |-> BufferLinesMax] ]

IAC         == 255
DONT        == 254
DO          == 253
WONT        == 252
WILL        == 251
SB          == 250
SE          == 240
NEW_ENVIRON == 39

NE_IS      == 0
NE_SEND    == 1
NE_INFO    == 2
NE_VAR     == 0
NE_VALUE   == 1
NE_ESC     == 2
NE_USERVAR == 3

\* WebSocket close status of a normal closure
NormalClosure == 1000

Null == 0
Now  == 1

\* process-wide ProxyConfig handed to the MudProxy constructor
ProxyConfig ==
  [ persistenceTimeout |-> 300000, maxBufferLines |-> BufferLinesMax,
    useProxyProtocol |-> TRUE ]

Ids        == 1..MaxSessions
Transports == 1..MaxTransports

\* "IPADDRESS" in ASCII
IPADDRESS == <<73, 80, 65, 68, 68, 82, 69, 83, 83>>

(***************************************************************************)
(* Buffers                                                                 *)
(***************************************************************************)
RECURSIVE ByteLength(_)
ByteLength(buf) ==
  IF buf = <<>> THEN 0
  ELSE (IF Head(buf) > 255 THEN Head(buf) ELSE 1) + ByteLength(Tail(buf))

RECURSIVE Concat(_)
Concat(bufs) ==
  IF bufs = <<>> THEN <<>> ELSE Head(bufs) \o Concat(Tail(bufs))

\* Buffer.slice(from, to) with 1-based inclusive positions
Slice(buf, from, to) ==
  IF from > to THEN <<>> ELSE SubSeq(buf, from, to)

(***************************************************************************)
(* Session configuration                                                   *)
(***************************************************************************)
Max(a, b) == IF a >= b THEN a ELSE b
Min(a, b) == IF a <= b THEN a ELSE b

\* JavaScript values
Undefined  == [kind |-> "undefined", n |-> 0]
NaN        == [kind |-> "NaN", n |-> 0]
Num(n)     == [kind |-> "number", n |-> n]
JsonNull   == [kind |-> "null", n |-> 0]
JsonBool(b) == [kind |-> "boolean", n |-> IF b THEN 1 ELSE 0]
\* a string holding the decimal digits of n
JsonDigits(n) == [kind |-> "digits", n |-> n]
\* a string that does not read as a number, such as "abc"
JsonText   == [kind |-> "text", n |-> 0]

\* ToNumber of ECMAScript, as applied by isNaN, Math.min and Math.max:
\* undefined and unreadable strings give NaN, null gives 0, true gives 1
ToNumber(value) ==
  IF value.kind \in {"undefined", "NaN", "text"} THEN NaN
  ELSE IF value.kind = "null" THEN Num(0)
  ELSE Num(value.n)

isNaN(value) == ToNumber(value) = NaN

validateConfigValue(value, limits) ==
  IF value = Undefined \/ isNaN(value) THEN limits.DEFAULT
  ELSE Max(limits.MIN, Min(limits.MAX, ToNumber(value).n))

\* params: [persistenceTimeout, maxBufferLines], each <<>> when the URL does
\* not carry the parameter and <<v>> with v the result of parseInt otherwise
parseSessionConfig(params, defaultConfig) ==
  LET persistenceTimeout ==
        IF params.persistenceTimeout # <<>>
        THEN params.persistenceTimeout[1]
        ELSE Num(defaultConfig.persistenceTimeout)
      maxBufferLines ==
        IF params.maxBufferLines # <<>>
        THEN params.maxBufferLines[1] ELSE Num(defaultConfig.maxBufferLines)
  IN  [ persistenceTimeout |->
          validateConfigValue(persistenceTimeout, CONFIG_LIMITS.PERSISTENCE_TIMEOUT),
        maxBufferLines |->
          validateConfigValue(maxBufferLines, CONFIG_LIMITS.BUFFER_LINES) ]

(***************************************************************************)
(* Telnet NEW-ENVIRON helpers                                              *)
(***************************************************************************)
RECURSIVE escapeEnvironData(_)
escapeEnvironData(data) ==
  IF data = <<>> THEN <<>>
  ELSE LET byte == Head(data)
           esc  == IF byte = 255 THEN <<255, 255>>
                   ELSE IF byte = NE_VAR THEN <<NE_ESC, NE_VAR>>
                   ELSE IF byte = NE_VALUE THEN <<NE_ESC, NE_VALUE>>
                   ELSE IF byte = NE_ESC THEN <<NE_ESC, NE_ESC>>
                   ELSE IF byte = NE_USERVAR THEN <<NE_ESC, NE_USERVAR>>
                   ELSE <<byte>>
       IN  esc \o escapeEnvironData(Tail(data))

\* Buffer.from(string, "ascii"): one byte per UTF-16 code unit, its low
\* eight bits
BufferFromAscii(string) == [k \in DOMAIN string |-> string[k] % 256]

\* Buffer.alloc(size) filled from offset 0: the bytes written, then zeros
\* up to size
BufferAlloc(size, bytes) ==
  [k \in 1..size |-> IF k <= Len(bytes) THEN bytes[k] ELSE 0]

buildNewEnvironResponseNoValueMark(varName, value) ==
  LET varNameBytes == escapeEnvironData(BufferFromAscii(varName))
      valueBytes == escapeEnvironData(BufferFromAscii(value))
  IN  BufferAlloc(6 + Len(varNameBytes) + 1 + Len(valueBytes) + 2,
        <<IAC, SB, NEW_ENVIRON, NE_IS, NE_VAR>> \o varNameBytes
          \o valueBytes \o <<IAC, SE>>)

\* the buffer is allocated with 6 bytes for the five before the name, so
\* it ends in one byte that is never written
buildNewEnvironResponse(varName, value) ==
  LET varNameBytes == escapeEnvironData(BufferFromAscii(varName))
      valueBytes == escapeEnvironData(BufferFromAscii(value))
  IN  BufferAlloc(6 + Len(varNameBytes) + 1 + Len(valueBytes) + 2,
        <<IAC, SB, NEW_ENVIRON, NE_IS, NE_VAR>> \o varNameBytes
          \o <<NE_VALUE>> \o valueBytes \o <<IAC, SE>>)

buildNewEnvironInfo(varName, value) ==
  LET varNameBytes == escapeEnvironData(BufferFromAscii(varName))
      valueBytes == escapeEnvironData(BufferFromAscii(value))
  IN  BufferAlloc(6 + Len(varNameBytes) + 1 + Len(valueBytes) + 2,
        <<IAC, SB, NEW_ENVIRON, NE_INFO, NE_VAR>> \o varNameBytes
          \o <<NE_VALUE>> \o valueBytes \o <<IAC, SE>>)

buildWontNewEnviron == <<IAC, WONT, NEW_ENVIRON>>

buildWillNewEnviron == <<IAC, WILL, NEW_ENVIRON>>

\* decimal ASCII digits of a natural number (template literal `${n}`)
RECURSIVE Decimal(_)
Decimal(n) ==
  IF n < 10 THEN <<48 + n>> ELSE Decimal(n \div 10) \o <<48 + (n % 10)>>

Includes(buf, byte) == \E i \in 1..Len(buf) : buf[i] = byte

\* "PROXY TCP4 <source_ip> <dest_ip> <source_port> <dest_port>\r\n"
buildProxyProtocolHeader(sourceIp, destIp, sourcePort, destPort) ==
  LET protocol == IF Includes(sourceIp, 58) THEN <<84, 67, 80, 54>>
                  ELSE <<84, 67, 80, 52>>
  IN  <<80, 82, 79, 88, 89, 32>> \o protocol \o <<32>> \o sourceIp \o <<32>>
        \o destIp \o <<32>> \o Decimal(sourcePort) \o <<32>>
        \o Decimal(destPort) \o <<13, 10>>

(***************************************************************************)
(* TelnetEnvironHandler: [clientIp, newEnvironNegotiated, parseBuffer]     *)
(***************************************************************************)
NewTelnetEnvironHandler(clientIp) ==
  [ clientIp |-> clientIp, newEnvironNegotiated |-> FALSE, parseBuffer |-> <<>> ]

\* position of IAC SE at or after start, 0 when there is none (-1 in the code)
RECURSIVE findSubnegotiationEnd(_, _)
findSubnegotiationEnd(parseBuffer, start) ==
  IF start > Len(parseBuffer) - 1 THEN 0
  ELSE IF parseBuffer[start] = IAC /\ parseBuffer[start + 1] = SE THEN start
  ELSE findSubnegotiationEnd(parseBuffer, start + 1)

\* inner loop of handleSendRequest: reads one name from position i on,
\* returns [i, nameBytes]
RECURSIVE ReadName(_, _, _)
ReadName(data, i, nameBytes) ==
  IF i > Len(data) THEN [i |-> i, nameBytes |-> nameBytes]
  ELSE IF data[i] = NE_ESC /\ i + 1 <= Len(data)
       THEN ReadName(data, i + 2, Append(nameBytes, data[i + 1]))
  ELSE IF data[i] = NE_VAR \/ data[i] = NE_USERVAR
       THEN [i |-> i, nameBytes |-> nameBytes]
  ELSE ReadName(data, i + 1, Append(nameBytes, data[i]))

\* outer loop of handleSendRequest: the list of requested variable names
RECURSIVE RequestedVars(_, _, _)
RequestedVars(data, i, requestedVars) ==
  IF i > Len(data) THEN requestedVars
  ELSE IF data[i] = NE_VAR \/ data[i] = NE_USERVAR
       THEN LET r == ReadName(data, i + 1, <<>>)
            IN  RequestedVars(data, r.i,
                  IF Len(r.nameBytes) > 0 THEN Append(requestedVars, r.nameBytes)
                  ELSE requestedVars)
  ELSE RequestedVars(data, i + 1, requestedVars)

\* <<>> stands for the null result
handleSendRequest(clientIp, data) ==
  LET requestedVars == RequestedVars(data, 1, <<>>)
  IN  IF (\E k \in 1..Len(requestedVars) : requestedVars[k] = IPADDRESS)
         \/ Len(requestedVars) = 0
      THEN buildNewEnvironResponse(IPADDRESS, clientIp)
      ELSE <<>>

handleSubnegotiation(clientIp, data) ==
  IF Len(data) = 0 THEN <<>>
  ELSE IF data[1] = NE_SEND THEN handleSendRequest(clientIp, Tail(data))
  ELSE <<>>

\* first position after i holding IAC, Len + 1 when there is none
RECURSIVE NextIac(_, _)
NextIac(parseBuffer, nextIac) ==
  IF nextIac <= Len(parseBuffer) /\ parseBuffer[nextIac] # IAC
  THEN NextIac(parseBuffer, nextIac + 1) ELSE nextIac

\* the while loop of processUpstreamData; st = [i, responses, passThrough,
\* newEnvironNegotiated] with i the 1-based scan position
RECURSIVE ScanLoop(_, _, _)
ScanLoop(pb, clientIp, st) ==
  LET i == st.i
      done == st
  IN
  IF i > Len(pb) THEN done
  ELSE IF pb[i] = IAC THEN
    IF i + 1 > Len(pb) THEN done
    ELSE LET cmd == pb[i + 1] IN
      IF cmd = IAC THEN
        ScanLoop(pb, clientIp,
          [st EXCEPT !.i = i + 2, !.passThrough = @ \o <<IAC, IAC>>])
      ELSE IF cmd \in {DO, DONT, WILL, WONT} THEN
        IF i + 2 > Len(pb) THEN done
        ELSE IF cmd = DO /\ pb[i + 2] = NEW_ENVIRON THEN
          ScanLoop(pb, clientIp,
            [st EXCEPT !.i = i + 3, !.responses = @ \o buildWillNewEnviron,
                       !.newEnvironNegotiated = TRUE])
        ELSE
          ScanLoop(pb, clientIp,
            [st EXCEPT !.i = i + 3, !.passThrough = @ \o Slice(pb, i, i + 2)])
      ELSE IF cmd = SB THEN
        IF i + 2 > Len(pb) THEN done
        ELSE LET opt == pb[i + 2]
                 seIndex == findSubnegotiationEnd(pb, i + 3)
             IN
          IF seIndex = 0 THEN done
          ELSE IF opt = NEW_ENVIRON THEN
            ScanLoop(pb, clientIp,
              [st EXCEPT !.i = seIndex + 2,
                 !.responses = @ \o handleSubnegotiation(clientIp,
                                     Slice(pb, i + 3, seIndex - 1))])
          ELSE
            ScanLoop(pb, clientIp,
              [st EXCEPT !.i = seIndex + 2,
                         !.passThrough = @ \o Slice(pb, i, seIndex + 1)])
      ELSE
        ScanLoop(pb, clientIp,
          [st EXCEPT !.i = i + 2, !.passThrough = @ \o Slice(pb, i, i + 1)])
  ELSE LET nextIac == NextIac(pb, i + 1) IN
    ScanLoop(pb, clientIp,
      [st EXCEPT !.i = nextIac, !.passThrough = @ \o Slice(pb, i, nextIac - 1)])

processUpstreamDataFlushesTail(handler, data) ==
  LET pb == handler.parseBuffer \o data
      st == ScanLoop(pb, handler.clientIp,
              [ i |-> 1, responses |-> <<>>, passThrough |-> <<>>,
                newEnvironNegotiated |-> handler.newEnvironNegotiated ])
  IN  [ handler |-> [handler EXCEPT
                       !.parseBuffer = <<>>,
                       !.newEnvironNegotiated = st.newEnvironNegotiated],
        response |-> st.responses,
        passThrough |-> st.passThrough \o Slice(pb, st.i, Len(pb)) ]

processUpstreamDataKeepsAll(handler, data) ==
  LET pb == handler.parseBuffer \o data
      st == ScanLoop(pb, handler.clientIp,
              [ i |-> 1, responses |-> <<>>, passThrough |-> <<>>,
                newEnvironNegotiated |-> handler.newEnvironNegotiated ])
  IN  [ handler |-> [handler EXCEPT
                       !.parseBuffer = pb,
                       !.newEnvironNegotiated = st.newEnvironNegotiated],
        response |-> st.responses,
        passThrough |-> st.passThrough ]

processUpstreamDataDropsTail(handler, data) ==
  LET pb == handler.parseBuffer \o data
      st == ScanLoop(pb, handler.clientIp,
              [ i |-> 1, responses |-> <<>>, passThrough |-> <<>>,
                newEnvironNegotiated |-> handler.newEnvironNegotiated ])
  IN  [ handler |-> [handler EXCEPT
                       !.parseBuffer = <<>>,
                       !.newEnvironNegotiated = st.newEnvironNegotiated],
        response |-> st.responses,
        passThrough |-> st.passThrough ]

\* returns [handler, response, passThrough]; response <<>> stands for null
processUpstreamData(handler, data) ==
  LET pb == handler.parseBuffer \o data
      st == ScanLoop(pb, handler.clientIp,
              [ i |-> 1, responses |-> <<>>, passThrough |-> <<>>,
                newEnvironNegotiated |-> handler.newEnvironNegotiated ])
  IN  [ handler |-> [handler EXCEPT
                       !.parseBuffer = Slice(pb, st.i, Len(pb)),
                       !.newEnvironNegotiated = st.newEnvironNegotiated],
        response |-> st.responses,
        passThrough |-> st.passThrough ]

(***************************************************************************)
(* Program state                                                           *)
(*   sessions : keys of MudProxy.sessions                                  *)
(*   sess     : the Session objects ever constructed, by id                *)
(*   ws       : the client WebSockets ever accepted                        *)
(*   up       : the upstream socket of each session                        *)
(*   timers   : pending setTimeout callbacks, [id, session, ms]            *)
(*   armed    : number of setTimeout calls so far (source of handles)      *)
(*   msgs     : number of client 'message' events so far                   *)
(*   chunks   : number of upstream 'data' events so far                    *)
(* History                                                                 *)
(*   produced : per session, the non-empty passThrough results in order    *)
(*   absence  : per session, [mark, stable]: Len(produced) when the client *)
(*              last became null and whether config.maxBufferLines is      *)
(*              unchanged since                                            *)
(*   heard    : per session, all bytes its upstream socket has delivered   *)
(*   received : per transport, the frames of its 'message' events in       *)
(*              order, each with whether upstream was alive at that moment *)
(* Browser                                                                 *)
(*   browser  : one MudClient and the useChannelHistory hook listening to  *)
(*              it: [client, hook, emitted, buffered, cursor, events,      *)
(*              sockets, reconnects, userClosed],                          *)
(*              emitted being the texts of the 'message' events so far and *)
(*              buffered their third arguments (history), cursor the       *)
(*              number of frames handled of each WebSocket of the proxy,   *)
(*              and events the number of frames the client has handled;    *)
(*              sockets, the readyState of each WebSocket the client has   *)
(*              created, reconnects, the delays of its pending reconnect   *)
(*              timers, and userClosed, whether the user's last call was   *)
(*              close() (history)                                          *)
(* Replies                                                                 *)
(*   environ  : the last call of buildNewEnvironResponse, [varName, value, *)
(*              reply]; reply <<>> before the first call                   *)
(***************************************************************************)
VARIABLES sessions, sess, ws, up, timers, armed, msgs, chunks, produced,
          absence, heard, received, browser, environ

vars == <<sessions, sess, ws, up, timers, armed, msgs, chunks, produced,
          absence, heard, received, browser, environ>>

World ==
  [ sessions |-> sessions, sess |-> sess, ws |-> ws, up |-> up,
    timers |-> timers, armed |-> armed ]

\* f with x mapped to v, x added to the domain when new
Put(f, x, v) == [y \in DOMAIN f \cup {x} |-> IF y = x THEN v ELSE f[y]]

(***************************************************************************)
(* WebSocket operations                                                    *)
(***************************************************************************)
ControlFrame(message) == [bytes |-> <<0>>, json |-> <<message>>]
DataFrame(data)       == [bytes |-> data, json |-> <<>>]

\* ws.send(data); every call site checks readyState first
WsSend(W, t, frame) ==
  [W EXCEPT !.ws[t].sent = Append(@, frame)]

\* ws.close(code): an open socket starts the closing handshake with a close
\* frame carrying the status code (Null when close() is given none)
WsClose(W, t, code) ==
  IF W.ws[t].readyState = "OPEN"
  THEN [W EXCEPT !.ws[t].readyState = "CLOSING", !.ws[t].closeSent = <<code>>]
  ELSE W

sendProxyMessage(W, t, message) ==
  IF W.ws[t].readyState = "OPEN"
  THEN WsSend(W, t, ControlFrame(message))
  ELSE W

ClientOpen(W, s) ==
  /\ W.sess[s].client # Null
  /\ W.ws[W.sess[s].client].readyState = "OPEN"

(***************************************************************************)
(* Upstream socket                                                         *)
(***************************************************************************)
isUpstreamAlive(W, s) ==
  /\ ~W.up[s].destroyed
  /\ W.up[s].writable

UpstreamWrite(W, s, buf) ==
  [W EXCEPT !.up[s].written = Append(@, buf)]

\* upstream.destroy()
UpstreamDestroy(W, s) ==
  [W EXCEPT !.up[s].destroyed = TRUE, !.up[s].writable = FALSE]

LocalAddress == <<49, 50, 55, 46, 48, 46, 48, 46, 49>>   \* "127.0.0.1"
UpstreamPort == 7777

\* session.upstream and session.telnetEnvHandler after connectUpstream; the
\* onConnected closure keeps the clientIp it was created with
connectUpstream(W, s, clientIp) ==
  [W EXCEPT
     !.sess[s].telnetEnvHandler = NewTelnetEnvironHandler(clientIp),
     !.up = Put(@, s, [ destroyed |-> FALSE, writable |-> TRUE,
                        connected |-> FALSE, closeEmitted |-> FALSE,
                        clientIp |-> clientIp,
                        written |-> <<>> ])]

onConnected(W, s) ==
  LET W1 == [W EXCEPT !.sess[s].upstreamConnected = TRUE,
                      !.up[s].connected = TRUE]
  IN  IF ProxyConfig.useProxyProtocol
      THEN UpstreamWrite(W1, s,
             buildProxyProtocolHeader(W.up[s].clientIp, LocalAddress,
                                      W.sess[s].clientPort, UpstreamPort))
      ELSE W1

(***************************************************************************)
(* MudProxy                                                                *)
(***************************************************************************)
cleanupSessionSweepsTimers(W, sessionId) ==
  IF sessionId \notin W.sessions
  THEN [W EXCEPT !.timers = {tm \in @ : tm.session # sessionId}]
  ELSE
    LET session == W.sess[sessionId]
        W1 == IF session.cleanupTimeout # Null
              THEN [W EXCEPT !.timers =
                      {tm \in @ : tm.id # session.cleanupTimeout}]
              ELSE W
        W2 == UpstreamDestroy(W1, sessionId)
        W3 == IF ClientOpen(W2, sessionId)
              THEN WsClose(W2, session.client, NormalClosure) ELSE W2
    IN  [W3 EXCEPT !.sessions = @ \ {sessionId}]

cleanupSessionKeepsEntry(W, sessionId) ==
  IF sessionId \notin W.sessions THEN W
  ELSE
    LET session == W.sess[sessionId]
        W1 == IF session.cleanupTimeout # Null
              THEN [W EXCEPT !.timers =
                      {tm \in @ : tm.id # session.cleanupTimeout}]
              ELSE W
        W2 == UpstreamDestroy(W1, sessionId)
    IN  IF ClientOpen(W2, sessionId)
        THEN WsClose(W2, session.client, NormalClosure) ELSE W2

cleanupSession(W, sessionId) ==
  IF sessionId \notin W.sessions THEN W
  ELSE
    LET session == W.sess[sessionId]
        W1 == IF session.cleanupTimeout # Null
              THEN [W EXCEPT !.timers =
                      {tm \in @ : tm.id # session.cleanupTimeout}]
              ELSE W
        W2 == UpstreamDestroy(W1, sessionId)
        W3 == IF ClientOpen(W2, sessionId)
              THEN WsClose(W2, session.client, NormalClosure) ELSE W2
    IN  [W3 EXCEPT !.sessions = @ \ {sessionId}]

setupClientHandlers(W, s, t) ==
  [W EXCEPT !.ws[t].session = s]

ShiftKeepsSize(session) ==
  IF Len(session.buffer) = 0 THEN session
  ELSE [session EXCEPT !.buffer = Tail(@)]

\* session.buffer.shift() with the bookkeeping that follows it
ShiftNewest(session) ==
  IF Len(session.buffer) = 0 THEN session
  ELSE [session EXCEPT
          !.buffer = SubSeq(@, 1, Len(@) - 1),
          !.bufferSize = @ - ByteLength(session.buffer[Len(session.buffer)].data)]

Shift(session) ==
  IF Len(session.buffer) = 0 THEN session
  ELSE [session EXCEPT
          !.buffer = Tail(@),
          !.bufferSize = @ - ByteLength(Head(session.buffer).data)]

\* the while loop of bufferMessage
RECURSIVE EvictForSize(_, _)
EvictForSize(session, size) ==
  IF session.bufferSize + size > MAX_BUFFER_SIZE_BYTES /\ Len(session.buffer) > 0
  THEN EvictForSize(Shift(session), size)
  ELSE session

bufferMessage(session, data) ==
  LET size == ByteLength(data)
      s1 == IF Len(session.buffer) >= session.config.maxBufferLines
            THEN Shift(session) ELSE session
  IN  IF size > MAX_BUFFER_SIZE_BYTES THEN s1
      ELSE [EvictForSize(s1, size) EXCEPT
              !.buffer = Append(@, [data |-> data, timestamp |-> Now]),
              !.bufferSize = @ + size]

handleUpstreamMessage(W, s, data) ==
  LET result == processUpstreamData(W.sess[s].telnetEnvHandler, data)
      W1 == [W EXCEPT !.sess[s].telnetEnvHandler = result.handler]
      W2 == IF result.response # <<>> /\ isUpstreamAlive(W1, s)
            THEN UpstreamWrite(W1, s, result.response) ELSE W1
      dataToForward == result.passThrough
  IN  IF Len(dataToForward) = 0 THEN W2
      ELSE IF ClientOpen(W2, s)
           THEN WsSend(W2, W2.sess[s].client, DataFrame(dataToForward))
      ELSE IF W2.sess[s].disconnectedAt # Null
           THEN [W2 EXCEPT !.sess[s] = bufferMessage(@, dataToForward)]
      ELSE W2

createNewSession(W, t, clientIp, clientPort, sessionConfig, sessionId) ==
  LET session == [ id |-> sessionId, client |-> t, buffer |-> <<>>,
                   bufferSize |-> 0, disconnectedAt |-> Null,
                   cleanupTimeout |-> Null, upstreamConnected |-> FALSE,
                   createdAt |-> Now, clientIp |-> clientIp,
                   clientPort |-> clientPort, config |-> sessionConfig,
                   telnetEnvHandler |-> NewTelnetEnvironHandler(clientIp) ]
      W1 == [W EXCEPT !.sess = Put(@, sessionId, session),
                      !.sessions = @ \cup {sessionId}]
      W2 == sendProxyMessage(W1, t,
              [ type |-> "session", sessionId |-> sessionId,
                config |-> sessionConfig ])
      W3 == connectUpstream(W2, sessionId, clientIp)
  IN  setupClientHandlers(W3, sessionId, t)

\* handleReconnection, "Cancel cleanup timeout"
CancelCleanupTimeout(W, sessionId) ==
  IF W.sess[sessionId].cleanupTimeout # Null
  THEN [W EXCEPT
          !.timers = {tm \in @ : tm.id # W.sess[sessionId].cleanupTimeout},
          !.sess[sessionId].cleanupTimeout = Null]
  ELSE W

UpdateClientIpKeepsHandler(W, sessionId, newClientIp) ==
  IF W.sess[sessionId].clientIp # newClientIp
  THEN LET W1 == [W EXCEPT !.sess[sessionId].clientIp = newClientIp]
       IN  IF /\ W1.sess[sessionId].telnetEnvHandler.newEnvironNegotiated
              /\ isUpstreamAlive(W1, sessionId)
           THEN UpstreamWrite(W1, sessionId,
                  buildNewEnvironInfo(IPADDRESS,
                    W1.sess[sessionId].telnetEnvHandler.clientIp))
           ELSE W1
  ELSE W

\* handleReconnection, "Check if client IP changed"
UpdateClientIp(W, sessionId, newClientIp) ==
  IF W.sess[sessionId].clientIp # newClientIp
  THEN LET W1 == [W EXCEPT
                    !.sess[sessionId].clientIp = newClientIp,
                    !.sess[sessionId].telnetEnvHandler.clientIp = newClientIp]
       IN  IF /\ W1.sess[sessionId].telnetEnvHandler.newEnvironNegotiated
              /\ isUpstreamAlive(W1, sessionId)
           THEN UpstreamWrite(W1, sessionId,
                  buildNewEnvironInfo(IPADDRESS,
                    W1.sess[sessionId].telnetEnvHandler.clientIp))
           ELSE W1
  ELSE W

ReplayBufferedReversed(W, t, sessionId) ==
  LET buffer == W.sess[sessionId].buffer
  IN  IF W.ws[t].readyState = "OPEN"
      THEN [W EXCEPT !.ws[t].sent = @ \o
              [j \in 1..Len(buffer) |->
                 DataFrame(buffer[Len(buffer) + 1 - j].data)]]
      ELSE W

\* handleReconnection, "Replay buffered messages"
ReplayBuffered(W, t, sessionId) ==
  LET buffer == W.sess[sessionId].buffer
  IN  IF W.ws[t].readyState = "OPEN"
      THEN [W EXCEPT !.ws[t].sent = @ \o
              [j \in 1..Len(buffer) |-> DataFrame(buffer[j].data)]]
      ELSE W

ClearBufferKeepSize(W, sessionId) ==
  [W EXCEPT !.sess[sessionId].buffer = <<>>]

ClearBufferNot(W, sessionId) == W

\* handleReconnection, "Clear buffer after replay"
ClearBuffer(W, sessionId) ==
  [W EXCEPT !.sess[sessionId].buffer = <<>>,
            !.sess[sessionId].bufferSize = 0]

handleReconnection(W, t, sessionId, newClientIp) ==
  IF sessionId \notin W.sessions
  THEN WsClose(sendProxyMessage(W, t,
         [type |-> "error", error |-> "Session not found"]), t, Null)
  ELSE
    LET W1 == CancelCleanupTimeout(W, sessionId)
        W2 == UpdateClientIp(W1, sessionId, newClientIp)
        W3 == [W2 EXCEPT !.sess[sessionId].client = t,
                         !.sess[sessionId].disconnectedAt = Null]
        W4 == sendProxyMessage(W3, t,
                [ type |-> "reconnected", sessionId |-> sessionId,
                  bufferedCount |-> Len(W3.sess[sessionId].buffer) ])
        W5 == ReplayBuffered(W4, t, sessionId)
        W6 == ClearBuffer(W5, sessionId)
    IN  setupClientHandlers(W6, sessionId, t)

\* req: [sessionId, params, ip, port]; sessionId Null when the URL has none;
\* freshId is the result generateSessionId() would give
handleConnection(W, t, req, freshId) ==
  LET W0 == [W EXCEPT !.ws = Put(@, t,
               [ readyState |-> "OPEN", session |-> Null, sent |-> <<>>,
                 sessionId |-> req.sessionId, closeSent |-> <<>>,
                 closeCode |-> Null, remoteAddress |-> req.ip,
                 remotePort |-> req.port ])]
  IN  IF req.sessionId # Null /\ req.sessionId \in W0.sessions
      THEN handleReconnection(W0, t, req.sessionId, req.ip)
      ELSE createNewSession(W0, t, req.ip, req.port,
             parseSessionConfig(req.params, ProxyConfig), freshId)

handleClientMessage(W, s, message) ==
  IF message.type = "updateConfig"
  THEN LET newConfig ==
             [ persistenceTimeout |->
                 validateConfigValue(message.persistenceTimeout,
                                     CONFIG_LIMITS.PERSISTENCE_TIMEOUT),
               maxBufferLines |->
                 validateConfigValue(message.maxBufferLines,
                                     CONFIG_LIMITS.BUFFER_LINES) ]
           W1 == [W EXCEPT !.sess[s].config = newConfig]
       IN  IF ClientOpen(W1, s)
           THEN sendProxyMessage(W1, W1.sess[s].client,
                  [type |-> "configUpdated", config |-> newConfig])
           ELSE W1
  ELSE W

onClientMessageForwardsUnparsed(W, s, frame) ==
  IF Len(frame.bytes) = 1 /\ frame.bytes[1] = 0 /\ frame.json # <<>>
  THEN handleClientMessage(W, s, frame.json[1])
  ELSE IF isUpstreamAlive(W, s)
       THEN UpstreamWrite(W, s, frame.bytes)
       ELSE W

onClientMessageEndsOnUnparsed(W, s, frame) ==
  IF Len(frame.bytes) > 0 /\ frame.bytes[1] = 0
  THEN IF Len(frame.bytes) = 1 /\ frame.json # <<>>
       THEN handleClientMessage(W, s, frame.json[1])
       ELSE cleanupSession(W, W.sess[s].id)
  ELSE IF isUpstreamAlive(W, s)
       THEN UpstreamWrite(W, s, frame.bytes)
       ELSE W

\* the 'message' handler installed by setupClientHandlers
onClientMessage(W, s, frame) ==
  IF Len(frame.bytes) > 0 /\ frame.bytes[1] = 0
  THEN \* JSON.parse succeeds iff the remainder is exactly one JSON text
       IF Len(frame.bytes) = 1 /\ frame.json # <<>>
       THEN handleClientMessage(W, s, frame.json[1])
       ELSE W
  ELSE IF isUpstreamAlive(W, s)
       THEN UpstreamWrite(W, s, frame.bytes)
       ELSE W

handleClientDisconnectKeepClient(W, s, isIntentionalDisconnect) ==
  LET W1 == [W EXCEPT !.sess[s].disconnectedAt = Now]
  IN  IF ~isUpstreamAlive(W1, s) THEN cleanupSession(W1, W1.sess[s].id)
      ELSE IF isIntentionalDisconnect THEN cleanupSession(W1, W1.sess[s].id)
      ELSE IF W1.sess[s].config.persistenceTimeout = 0
           THEN cleanupSession(W1, W1.sess[s].id)
      ELSE [W1 EXCEPT
              !.armed = @ + 1,
              !.timers = @ \cup {[ id |-> W1.armed + 1, session |-> s,
                                   ms |-> W1.sess[s].config.persistenceTimeout ]},
              !.sess[s].cleanupTimeout = W1.armed + 1]

handleClientDisconnectArmsAtZero(W, s, isIntentionalDisconnect) ==
  LET W1 == [W EXCEPT !.sess[s].client = Null,
                      !.sess[s].disconnectedAt = Now]
  IN  IF ~isUpstreamAlive(W1, s) THEN cleanupSession(W1, W1.sess[s].id)
      ELSE IF isIntentionalDisconnect THEN cleanupSession(W1, W1.sess[s].id)
      ELSE [W1 EXCEPT
              !.armed = @ + 1,
              !.timers = @ \cup {[ id |-> W1.armed + 1, session |-> s,
                                   ms |-> W1.sess[s].config.persistenceTimeout ]},
              !.sess[s].cleanupTimeout = W1.armed + 1]

handleClientDisconnectDefaultDelay(W, s, isIntentionalDisconnect) ==
  LET W1 == [W EXCEPT !.sess[s].client = Null,
                      !.sess[s].disconnectedAt = Now]
  IN  IF ~isUpstreamAlive(W1, s) THEN cleanupSession(W1, W1.sess[s].id)
      ELSE IF isIntentionalDisconnect THEN cleanupSession(W1, W1.sess[s].id)
      ELSE IF W1.sess[s].config.persistenceTimeout = 0
           THEN cleanupSession(W1, W1.sess[s].id)
      ELSE [W1 EXCEPT
              !.armed = @ + 1,
              !.timers = @ \cup {[ id |-> W1.armed + 1, session |-> s,
                                   ms |-> CONFIG_LIMITS.PERSISTENCE_TIMEOUT.DEFAULT ]},
              !.sess[s].cleanupTimeout = W1.armed + 1]

handleClientDisconnect(W, s, isIntentionalDisconnect) ==
  LET W1 == [W EXCEPT !.sess[s].client = Null,
                      !.sess[s].disconnectedAt = Now]
  IN  IF ~isUpstreamAlive(W1, s) THEN cleanupSession(W1, W1.sess[s].id)
      ELSE IF isIntentionalDisconnect THEN cleanupSession(W1, W1.sess[s].id)
      ELSE IF W1.sess[s].config.persistenceTimeout = 0
           THEN cleanupSession(W1, W1.sess[s].id)
      ELSE [W1 EXCEPT
              !.armed = @ + 1,
              !.timers = @ \cup {[ id |-> W1.armed + 1, session |-> s,
                                   ms |-> W1.sess[s].config.persistenceTimeout ]},
              !.sess[s].cleanupTimeout = W1.armed + 1]

onClientCloseAnyCode(W, s, code) ==
  handleClientDisconnect(W, s, FALSE)

\* the 'close' handler installed by setupClientHandlers
onClientClose(W, s, code) ==
  handleClientDisconnect(W, s, code = NormalClosure)

onUpstreamCloseKeepsClient(W, s) ==
  LET W1 == [W EXCEPT !.sess[s].upstreamConnected = FALSE]
  IN  [W1 EXCEPT !.sessions = @ \ {W1.sess[s].id}]

\* the 'close' handler of the upstream socket
onUpstreamClose(W, s) ==
  LET W1 == [W EXCEPT !.sess[s].upstreamConnected = FALSE]
      W2 == IF ClientOpen(W1, s)
            THEN WsClose(W1, W1.sess[s].client, NormalClosure) ELSE W1
  IN  cleanupSession(W2, W2.sess[s].id)

(***************************************************************************)
(* Browser client (MudClient), receiving side                              *)
(***************************************************************************)
\* handleProxyMessage on a received frame: whether the remainder is handed
\* to JSON.parse, and whether the frame is consumed as a proxy message
handleProxyMessage(frame) ==
  IF Len(frame.bytes) = 0 \/ frame.bytes[1] # 0
  THEN [parsed |-> FALSE, handled |-> FALSE]
  ELSE [parsed |-> TRUE,
        handled |-> Len(frame.bytes) = 1 /\ frame.json # <<>>]

\* the fields of MudClient that connecting, closing and the replay events
\* read or write (_connected is written connected)
NewMudClient ==
  [ connected |-> FALSE, intentionalDisconnect |-> FALSE,
    reconnectAttempts |-> 0, hasEmittedDisconnect |-> FALSE,
    sessionId |-> Null, replayingBufferedMessages |-> FALSE ]

(***************************************************************************)
(* useChannelHistory: the "all" buffer (buffers.get("all").messages), the  *)
(* refs bufferedMessagesQueue, isReplayingBuffer and messageIdCounter.     *)
(* A text is a sequence of character codes.  The updater given to          *)
(* setBuffers is applied where it is passed.                               *)
(***************************************************************************)
MAX_MESSAGES_PER_BUFFER == 100000

NewChannelHistory ==
  [ all |-> <<>>, bufferedMessagesQueue |-> <<>>,
    isReplayingBuffer |-> FALSE, messageIdCounter |-> 0 ]

\* the characters String.prototype.trim removes, as far as the inputs go
WhiteSpace == {9, 10, 13, 32}

\* message.trim() is the empty string
TrimsToEmpty(message) == \A k \in DOMAIN message : message[k] \in WhiteSpace

\* addMessageToBuffer("all", message)
addMessageToBuffer(hook, message) ==
  LET newMessage == [id |-> hook.messageIdCounter, message |-> message]
      updatedMessages == Append(hook.all, newMessage)
  IN  [hook EXCEPT
         !.messageIdCounter = @ + 1,
         !.all = IF Len(updatedMessages) > MAX_MESSAGES_PER_BUFFER
                 THEN Tail(updatedMessages) ELSE updatedMessages]

flushBufferedMessages(hook) ==
  IF Len(hook.bufferedMessagesQueue) = 0 THEN hook
  ELSE LET updatedMessages == hook.all \o hook.bufferedMessagesQueue
           over == Len(updatedMessages) - MAX_MESSAGES_PER_BUFFER
       IN  [hook EXCEPT
              !.all = IF over > 0
                      THEN SubSeq(updatedMessages, over + 1, Len(updatedMessages))
                      ELSE updatedMessages,
              !.bufferedMessagesQueue = <<>>]

handleMessage(hook, message, isBuffered) ==
  IF TrimsToEmpty(message) THEN hook
  ELSE IF hook.isReplayingBuffer /\ isBuffered
       THEN [hook EXCEPT
               !.bufferedMessagesQueue =
                  Append(@, [id |-> hook.messageIdCounter, message |-> message]),
               !.messageIdCounter = @ + 1]
  ELSE addMessageToBuffer(hook, message)

handleBufferReplayStart(hook, count) ==
  [hook EXCEPT !.isReplayingBuffer = TRUE, !.bufferedMessagesQueue = <<>>]

handleBufferReplayComplete(hook, count) ==
  [flushBufferedMessages(hook) EXCEPT !.isReplayingBuffer = FALSE]

\* MudClient.handleProxyMessage, case "reconnected", with the listeners of
\* the hook; B = [client, hook]
onReconnected(B, bufferedCount) ==
  IF bufferedCount > 0
  THEN [B EXCEPT !.client.replayingBufferedMessages = TRUE,
                 !.hook = handleBufferReplayStart(@, bufferedCount)]
  ELSE B

\* MudClient.handleProxyMessage, case "bufferReplayComplete"
onBufferReplayComplete(B, count) ==
  [B EXCEPT !.client.replayingBufferedMessages = FALSE,
            !.hook = handleBufferReplayComplete(@, count)]

\* MudClient.emitMessage
emitMessage(B, dataString) ==
  [B EXCEPT !.hook = handleMessage(@, dataString,
                                   B.client.replayingBufferedMessages)]

\* String.prototype.trimEnd
RECURSIVE TrimEnd(_)
TrimEnd(text) ==
  IF text # <<>> /\ text[Len(text)] \in WhiteSpace
  THEN TrimEnd(SubSeq(text, 1, Len(text) - 1)) ELSE text

\* text.split("\n"): the pieces between line feeds, one piece when there
\* is no line feed
RECURSIVE SplitLines(_)
SplitLines(text) ==
  IF \E k \in DOMAIN text : text[k] = 10
  THEN LET k == CHOOSE k \in DOMAIN text :
                  text[k] = 10 /\ \A j \in 1..(k - 1) : text[j] # 10
       IN  <<SubSeq(text, 1, k - 1)>>
             \o SplitLines(SubSeq(text, k + 1, Len(text)))
  ELSE <<text>>

\* line.startsWith("#$#")
IsMcp(line) == Len(line) >= 3 /\ SubSeq(line, 1, 3) = <<35, 36, 35>>

\* the loop of handleData; each 'message' event is recorded in emitted with
\* its text and in buffered with its third argument
RECURSIVE EmitLines(_, _)
EmitLines(B, lines) ==
  IF lines = <<>> THEN B
  ELSE LET line == Head(lines)
           B1 == IF IsMcp(line) THEN B
                 ELSE [emitMessage(B, line) EXCEPT
                         !.emitted = Append(@, line),
                         !.buffered =
                            Append(@, B.client.replayingBufferedMessages)]
       IN  EmitLines(B1, Tail(lines))

\* MudClient.handleData on the bytes of a frame of plain text
handleData(B, data) == EmitLines(B, SplitLines(TrimEnd(data)))

\* the onmessage wrapper of the client's WebSocket: a proxy message is
\* handled by its type, any other frame goes to the Telnet parser and, being
\* plain text, on to handleData
onmessage(B, frame) ==
  IF handleProxyMessage(frame).handled
  THEN LET message == frame.json[1]
       IN  IF message.type = "session"
           THEN [B EXCEPT !.client.sessionId = message.sessionId]
           ELSE IF message.type = "reconnected"
           THEN onReconnected(B, message.bufferedCount)
           ELSE IF message.type = "error"
           THEN IF message.error = "Session not found"
                THEN [B EXCEPT !.client.sessionId = Null] ELSE B
           ELSE IF message.type = "bufferReplayComplete"
           THEN onBufferReplayComplete(B, message.count)
           ELSE B
  ELSE handleData(B, frame.bytes)

(***************************************************************************)
(* Browser client (MudClient), connecting side.  B.sockets holds the       *)
(* readyState of every WebSocket the client has created, this.ws being the *)
(* last; B.reconnects holds the delays of the setTimeout callbacks that    *)
(* are pending.                                                            *)
(***************************************************************************)
RECURSIVE Pow2(_)
Pow2(n) == IF n = 0 THEN 1 ELSE 2 * Pow2(n - 1)

\* MudClient.connect
connect(B) ==
  [B EXCEPT !.client.intentionalDisconnect = FALSE,
            !.sockets = Append(@, "CONNECTING")]

\* ws.onopen, for socket i
onopen(B, i) ==
  [B EXCEPT !.sockets[i] = "OPEN",
            !.client.connected = TRUE,
            !.client.reconnectAttempts = 0,
            !.client.hasEmittedDisconnect = FALSE]

\* MudClient.cleanupConnection
cleanupConnection(B) ==
  [B EXCEPT !.client.connected = FALSE, !.client.hasEmittedDisconnect = TRUE]

\* ws.onclose, for socket i
onclose(B, i) ==
  LET B1 == cleanupConnection([B EXCEPT !.sockets[i] = "CLOSED"])
  IN  IF ~B1.client.intentionalDisconnect
      THEN LET delay == Min(5000 * Pow2(B1.client.reconnectAttempts), 60000)
           IN  [B1 EXCEPT !.client.reconnectAttempts = @ + 1,
                          !.reconnects = Append(@, delay)]
      ELSE B1

\* the setTimeout callback of ws.onclose, the k-th pending one
onReconnectTimer(B, k) ==
  connect([B EXCEPT !.reconnects =
             SubSeq(@, 1, k - 1) \o SubSeq(@, k + 1, Len(@))])

\* MudClient.close; ws.close(1000, ...) starts the closing handshake of a
\* socket that is connecting or open
close(B) ==
  LET B1 == [B EXCEPT !.client.intentionalDisconnect = TRUE,
                      !.client.reconnectAttempts = 0,
                      !.client.hasEmittedDisconnect = FALSE,
                      !.client.sessionId = Null]
      last == Len(B1.sockets)
      B2 == IF last > 0 /\ B1.sockets[last] \in {"CONNECTING", "OPEN"}
            THEN [B1 EXCEPT !.sockets[last] = "CLOSING"] ELSE B1
  IN  cleanupConnection(B2)

(***************************************************************************)
(* Inputs                                                                  *)
(***************************************************************************)
IpA == <<50, 48, 51, 46, 48, 46, 49, 49, 51, 46, 55>>   \* "203.0.113.7"
IpB == <<49, 48, 46, 50>>   \* "10.2"

\* remote address of the t-th accepted connection
IpOf(t) == IF t % 3 = 0 THEN IpB ELSE IpA

\* a session id no session was ever given
StaleId == MaxSessions + 1

\* remote port of the t-th accepted connection
PortOf(t) == 50000 + t

\* URL parameters: absent, or the parseInt of the text given
HandshakeParams ==
  { [persistenceTimeout |-> <<>>,    maxBufferLines |-> <<>>],
    [persistenceTimeout |-> <<Num(0)>>, maxBufferLines |-> <<NaN>>],
    [persistenceTimeout |-> <<Num(60000)>>, maxBufferLines |-> <<Num(1)>>] }

CloseCodes == {NormalClosure, 1006}

SixMiB == 6291456

\* what the n-th upstream 'data' event may carry: one byte of text ("A",
\* "B", ...); a little over 6 MiB of text or, every third time, more than the
\* hard limit; and, for the first of every three, a negotiation the filter
\* swallows
Chunks(n) ==
  { <<64 + n>>,
    IF n % 3 = 0 THEN <<MAX_BUFFER_SIZE_BYTES + n>> ELSE <<SixMiB + n>> }
  \cup (IF n % 3 = 1 THEN {<<IAC, DO, NEW_ENVIRON>>} ELSE {})

ClientFrames ==
  { [bytes |-> <<0>>,
     json  |-> << [ type |-> "updateConfig", persistenceTimeout |-> Undefined,
                    maxBufferLines |-> Num(BufferLinesMin) ] >>],
    [bytes |-> <<0, 123>>, json |-> <<>>],
    [bytes |-> <<108, 10>>, json |-> <<>>] }

\* --- inputs of the wire-level specification ---

\* one upstream byte stream: "A", IAC DO NEW_ENVIRON, NUL, "B",
\* IAC SB NEW_ENVIRON SEND VAR "IPADDRESS" IAC SE, "C"
WireStream ==
  <<65, IAC, DO, NEW_ENVIRON, 0, 66, IAC, SB, NEW_ENVIRON, NE_SEND, NE_VAR>>
    \o IPADDRESS \o <<IAC, SE, 67>>

\* the positions after which a TCP segment of the stream may end
WireCuts == {2, 3, 4, 10, 23}

WireParams == { [persistenceTimeout |-> <<>>, maxBufferLines |-> <<>>] }

\* what the n-th client 'message' event may carry.  Odd n: the line "l",
\* {"type":"ping"}, or
\* {"type":"updateConfig","persistenceTimeout":null,"maxBufferLines":"abc"};
\* even n: the line "n", or 0x00 followed by "{"
WireFrames(n) ==
  IF n % 2 = 1
  THEN { [bytes |-> <<108, 10>>, json |-> <<>>],
         [bytes |-> <<0>>, json |-> << [type |-> "ping"] >>],
         [bytes |-> <<0>>,
          json  |-> << [ type |-> "updateConfig",
                         persistenceTimeout |-> JsonNull,
                         maxBufferLines |-> JsonText ] >>] }
  ELSE { [bytes |-> <<110, 10>>, json |-> <<>>],
         [bytes |-> <<0, 123>>, json |-> <<>>] }

\* --- inputs of the filter specification ---

\* payloads of NEW_ENVIRON SEND requests as they travel (after the SEND
\* byte): nothing; VAR "IPADDRESS"; VAR "X"; USERVAR "IPADDRESS";
\* VAR "X" USERVAR "IPADDRESS"; VAR "IP" ESC "A" "DDRESS";
\* VAR "IPADDRESS" ESC VAR; VAR "X" 0xFF 0xF0 "Y" with the 0xFF doubled
SendPayloads ==
  { <<>>,
    <<NE_VAR>> \o IPADDRESS,
    <<NE_VAR, 88>>,
    <<NE_USERVAR>> \o IPADDRESS,
    <<NE_VAR, 88, NE_USERVAR>> \o IPADDRESS,
    <<NE_VAR, 73, 80, NE_ESC, 65, 68, 68, 82, 69, 83, 83>>,
    <<NE_VAR>> \o IPADDRESS \o <<NE_ESC, NE_VAR>>,
    <<NE_VAR, 88, IAC, IAC, SE, 89>> }

\* "A", the SEND request with the payload, "B"
SendStream(payload) ==
  <<65, IAC, SB, NEW_ENVIRON, NE_SEND>> \o payload \o <<IAC, SE, 66>>

\* upstream byte streams without IAC DO NEW_ENVIRON and IAC SB NEW_ENVIRON
\* that end where a command ends: an escaped 0xFF; IAC DO ECHO and
\* IAC WILL NEW_ENVIRON; a subnegotiation of option 201 and IAC NOP
CompleteStreams ==
  { <<65, IAC, IAC, 66>>,
    <<IAC, DO, 1, 65, IAC, WILL, NEW_ENVIRON, 66>>,
    <<65, IAC, SB, 201, 7, IAC, SE, IAC, 241, 66>> }

\* such streams ending inside a command: after IAC, after IAC DONT, and
\* inside a subnegotiation of option 201
OpenStreams ==
  { <<66, 65, IAC>>,
    <<66, IAC, DONT>>,
    <<66, IAC, SB, 201, 7, 65>> }

\* a stream that negotiates: "A", IAC DO NEW_ENVIRON, "B", and a SEND
\* request that names no variable
NegotiatingStreams ==
  { <<65, IAC, DO, NEW_ENVIRON, 66, IAC, SB, NEW_ENVIRON, NE_SEND, IAC, SE>> }

FilterStreams ==
  {SendStream(payload) : payload \in SendPayloads}
    \cup CompleteStreams \cup OpenStreams \cup NegotiatingStreams

\* --- inputs of the reattach specification ---

\* remote addresses a connection may come from
Addresses == {IpA, IpB}

\* what the n-th upstream 'data' event may carry: one byte of text, or for
\* the first, IAC DO NEW_ENVIRON
AddressChunks(n) ==
  {<<64 + n>>} \cup (IF n = 1 THEN {<<IAC, DO, NEW_ENVIRON>>} ELSE {})

\* --- inputs of the address specification ---

\* what an upstream 'data' event may carry: IAC DO NEW_ENVIRON, or a SEND
\* request that names no variable
EnvironChunks ==
  { <<IAC, DO, NEW_ENVIRON>>, <<IAC, SB, NEW_ENVIRON, NE_SEND, IAC, SE>> }

\* --- inputs of the browser specification ---

\* lines of output: "a", "b", and a line of one space
Lines == {<<97>>, <<98>>, <<32>>}

\* bufferedCount of a 'reconnected' message
BufferedCounts == {0, 2}

\* --- inputs of the reply builder ---

\* the strings over an alphabet, from minLen to maxLen characters
Strings(alphabet, minLen, maxLen) ==
  UNION {[1..n -> alphabet] : n \in minLen..maxLen}

\* variable names: "IPADDRESS", and ASCII strings of "N", VALUE and USERVAR
VarNames ==
  {IPADDRESS} \cup Strings({78, NE_VALUE, NE_USERVAR}, 1, MaxNameLen)

\* values: byte strings of the four NEW-ENVIRON codes, SE and IAC
Values ==
  Strings({NE_VAR, NE_VALUE, NE_ESC, NE_USERVAR, SE, IAC}, 0, MaxValueLen)

(***************************************************************************)
(* Actions                                                                 *)
(***************************************************************************)
Init ==
  /\ sessions = {}
  /\ sess = [x \in {} |-> 0]
  /\ ws = [x \in {} |-> 0]
  /\ up = [x \in {} |-> 0]
  /\ timers = {}
  /\ armed = 0
  /\ msgs = 0
  /\ chunks = 0
  /\ produced = [x \in {} |-> 0]
  /\ absence = [x \in {} |-> 0]
  /\ heard = [x \in {} |-> 0]
  /\ received = [x \in {} |-> 0]
  /\ browser = [ client |-> NewMudClient, hook |-> NewChannelHistory,
                 emitted |-> <<>>, buffered |-> <<>>,
                 cursor |-> [x \in {} |-> 0], events |-> 0,
                 sockets |-> <<>>, reconnects |-> <<>>, userClosed |-> FALSE ]
  /\ environ = [varName |-> <<>>, value |-> <<>>, reply |-> <<>>]

Apply(W) ==
  /\ sessions' = W.sessions
  /\ sess' = W.sess
  /\ ws' = W.ws
  /\ up' = W.up
  /\ timers' = W.timers
  /\ armed' = W.armed

\* WebSocketServer 'connection': a client connects, with or without sessionId.
\* generateSessionId draws 24 characters at random; the draw is taken to
\* differ from every id drawn before (freshId).
Connection(req) ==
  LET t == Cardinality(DOMAIN ws) + 1
      freshId == Cardinality(DOMAIN sess) + 1
      reattach == req.sessionId # Null /\ req.sessionId \in sessions
  IN  /\ t <= MaxTransports
      /\ req.port = PortOf(t)
      /\ reattach \/ freshId <= MaxSessions
      /\ Apply(handleConnection(World, t, req, freshId))
      /\ produced' = IF reattach THEN produced ELSE Put(produced, freshId, <<>>)
      /\ absence' = IF reattach THEN absence
                    ELSE Put(absence, freshId, [mark |-> 0, stable |-> TRUE])
      /\ heard' = IF reattach THEN heard ELSE Put(heard, freshId, <<>>)
      /\ received' = Put(received, t, <<>>)
      /\ UNCHANGED <<msgs, chunks, browser, environ>>

\* the same event with the outcome of generateSessionId() given: drawn is
\* any string the 24 random characters can make, the id of a registered
\* session included
ConnectionDrawing(req, drawn) ==
  LET t == Cardinality(DOMAIN ws) + 1
      reattach == req.sessionId # Null /\ req.sessionId \in sessions
  IN  /\ t <= MaxTransports
      /\ req.port = PortOf(t)
      /\ Apply(handleConnection(World, t, req, drawn))
      /\ produced' = IF reattach THEN produced ELSE Put(produced, drawn, <<>>)
      /\ absence' = IF reattach THEN absence
                    ELSE Put(absence, drawn, [mark |-> 0, stable |-> TRUE])
      /\ heard' = IF reattach THEN heard ELSE Put(heard, drawn, <<>>)
      /\ received' = Put(received, t, <<>>)
      /\ UNCHANGED <<msgs, chunks, browser, environ>>

\* 'message' on a client WebSocket
ClientMessage(t, frame) ==
  /\ t \in DOMAIN ws
  /\ ws[t].readyState = "OPEN"
  /\ ws[t].session # Null
  /\ msgs' = msgs + 1
  /\ LET s == ws[t].session
         W == onClientMessage(World, s, frame)
     IN  /\ Apply(W)
         /\ absence' = [absence EXCEPT ![s].stable =
                          @ /\ W.sess[s].config.maxBufferLines
                                 = sess[s].config.maxBufferLines]
         /\ received' = [received EXCEPT ![t] =
                           Append(@, [ frame |-> frame,
                                       alive |-> isUpstreamAlive(World, s) ])]
  /\ UNCHANGED <<chunks, produced, heard, browser, environ>>

\* the peer's close frame arrives or its connection is lost: the socket
\* leaves OPEN, its 'close' event follows later
ClientClosing(t) ==
  /\ t \in DOMAIN ws
  /\ ws[t].readyState = "OPEN"
  /\ ws' = [ws EXCEPT ![t].readyState = "CLOSING"]
  /\ UNCHANGED <<sessions, sess, up, timers, armed, msgs, chunks, produced,
               absence, heard, received, browser, environ>>

\* 'close' on a client WebSocket, with the status code of the closure
ClientClose(t, code) ==
  /\ t \in DOMAIN ws
  /\ ws[t].readyState = "CLOSING"
  /\ LET s  == ws[t].session
         W0 == [World EXCEPT !.ws[t].readyState = "CLOSED",
                             !.ws[t].closeCode = code]
     IN  IF s = Null
         THEN Apply(W0) /\ UNCHANGED absence
         ELSE /\ Apply(onClientClose(W0, s, code))
              /\ absence' = IF sess[s].client # Null
                            THEN [absence EXCEPT ![s] =
                                    [mark |-> Len(produced[s]), stable |-> TRUE]]
                            ELSE absence
  /\ UNCHANGED <<msgs, chunks, produced, heard, received, browser, environ>>

\* the connect callback of the upstream socket
UpstreamConnect(s) ==
  /\ s \in DOMAIN up
  /\ ~up[s].connected /\ ~up[s].destroyed /\ up[s].writable
  /\ Apply(onConnected(World, s))
  /\ UNCHANGED <<msgs, chunks, produced, absence, heard, received, browser, environ>>

\* 'data' on the upstream socket
UpstreamData(s, data) ==
  /\ s \in DOMAIN up
  /\ up[s].connected /\ ~up[s].destroyed /\ up[s].writable
  /\ chunks' = chunks + 1
  /\ heard' = [heard EXCEPT ![s] = @ \o data]
  /\ Apply(handleUpstreamMessage(World, s, data))
  /\ LET passThrough ==
           processUpstreamData(sess[s].telnetEnvHandler, data).passThrough
     IN  produced' = IF passThrough = <<>> THEN produced
                     ELSE [produced EXCEPT ![s] = Append(@, passThrough)]
  /\ UNCHANGED <<msgs, absence, received, browser, environ>>

\* the upstream server ends the connection, or the connection fails
UpstreamLost(s) ==
  /\ s \in DOMAIN up
  /\ ~up[s].destroyed /\ up[s].writable
  /\ up' = [up EXCEPT ![s].destroyed = TRUE, ![s].writable = FALSE]
  /\ UNCHANGED <<sessions, sess, ws, timers, armed, msgs, chunks, produced,
               absence, heard, received, browser, environ>>

\* 'close' on the upstream socket
UpstreamClose(s) ==
  /\ s \in DOMAIN up
  /\ up[s].destroyed /\ ~up[s].closeEmitted
  /\ Apply(onUpstreamClose([World EXCEPT !.up[s].closeEmitted = TRUE], s))
  /\ UNCHANGED <<msgs, chunks, produced, absence, heard, received, browser, environ>>

\* the persistence timer's callback
TimerFires(tm) ==
  /\ tm \in timers
  /\ Apply(cleanupSession([World EXCEPT !.timers = @ \ {tm}],
                          sess[tm.session].id))
  /\ UNCHANGED <<msgs, chunks, produced, absence, heard, received, browser, environ>>

Next ==
  \/ \E sid \in {Null, StaleId} \cup DOMAIN sess, params \in HandshakeParams :
       Connection([ sessionId |-> sid, params |-> params,
                    ip |-> IpOf(Cardinality(DOMAIN ws) + 1),
                    port |-> PortOf(Cardinality(DOMAIN ws) + 1) ])
  \/ \E t \in Transports, frame \in ClientFrames :
       msgs < MaxClientMsgs /\ ClientMessage(t, frame)
  \/ \E t \in Transports : ClientClosing(t)
  \/ \E t \in Transports, code \in CloseCodes : ClientClose(t, code)
  \/ \E s \in Ids : UpstreamConnect(s)
  \/ \E s \in Ids : \E data \in Chunks(chunks + 1) :
       chunks < MaxChunks /\ UpstreamData(s, data)
  \/ \E s \in Ids : UpstreamLost(s)
  \/ \E s \in Ids : UpstreamClose(s)
  \/ \E tm \in timers : TimerFires(tm)

Spec == Init /\ [][Next]_vars

\* Wire-level specification: the same handlers, driven by one upstream byte
\* stream cut into segments at WireCuts and by the client frames WireFrames
NextWire ==
  \/ \E sid \in {Null} \cup DOMAIN sess, params \in WireParams :
       Connection([ sessionId |-> sid, params |-> params,
                    ip |-> IpOf(Cardinality(DOMAIN ws) + 1),
                    port |-> PortOf(Cardinality(DOMAIN ws) + 1) ])
  \/ \E t \in Transports, frame \in WireFrames(msgs + 1) :
       msgs < MaxWireFrames /\ ClientMessage(t, frame)
  \/ \E t \in Transports : ClientClosing(t)
  \/ \E t \in Transports, code \in CloseCodes : ClientClose(t, code)
  \/ \E s \in Ids : UpstreamConnect(s)
  \/ \E s \in Ids, cut \in WireCuts :
       /\ s \in DOMAIN heard
       /\ cut > Len(heard[s])
       /\ UpstreamData(s, SubSeq(WireStream, Len(heard[s]) + 1, cut))
  \/ \E s \in Ids : UpstreamLost(s)
  \/ \E s \in Ids : UpstreamClose(s)
  \/ \E tm \in timers : TimerFires(tm)

SpecWire == Init /\ [][NextWire]_vars

\* Filter specification: one session whose upstream socket delivers one of
\* FilterStreams, split into at most MaxFilterChunks segments at any
\* positions
NextFilter ==
  \/ \E params \in WireParams :
       Connection([ sessionId |-> Null, params |-> params,
                    ip |-> IpOf(Cardinality(DOMAIN ws) + 1),
                    port |-> PortOf(Cardinality(DOMAIN ws) + 1) ])
  \/ \E s \in Ids : UpstreamConnect(s)
  \/ \E s \in Ids, stream \in FilterStreams :
       \E cut \in 1..Len(stream) :
         /\ s \in DOMAIN heard
         /\ cut > Len(heard[s])
         /\ heard[s] = SubSeq(stream, 1, Len(heard[s]))
         /\ chunks < MaxFilterChunks
         /\ UpstreamData(s, SubSeq(stream, Len(heard[s]) + 1, cut))

SpecFilter == Init /\ [][NextFilter]_vars

\* Reattach specification: clients come and go from either address while
\* upstream negotiates or not
NextReattach ==
  \/ \E sid \in {Null} \cup DOMAIN sess, params \in WireParams,
        ip \in Addresses :
       Connection([ sessionId |-> sid, params |-> params, ip |-> ip,
                    port |-> PortOf(Cardinality(DOMAIN ws) + 1) ])
  \/ \E t \in Transports : ClientClosing(t)
  \/ \E t \in Transports, code \in CloseCodes : ClientClose(t, code)
  \/ \E s \in Ids : UpstreamConnect(s)
  \/ \E s \in Ids : \E data \in AddressChunks(chunks + 1) :
       chunks < MaxChunks /\ UpstreamData(s, data)
  \/ \E s \in Ids : UpstreamLost(s)
  \/ \E s \in Ids : UpstreamClose(s)
  \/ \E tm \in timers : TimerFires(tm)

SpecReattach == Init /\ [][NextReattach]_vars

\* The same with the timers running: a callback given to setTimeout is
\* called once its delay has passed, unless clearTimeout came first
TimerHandles == 1..MaxTransports

SpecPersist ==
  /\ Init
  /\ [][NextReattach]_vars
  /\ \A handle \in TimerHandles :
       WF_vars(\E tm \in timers : tm.id = handle /\ TimerFires(tm))

\* --- reattaching from another address while upstream asks for the address ---
NextAddress ==
  \/ \E sid \in {Null} \cup DOMAIN sess, params \in WireParams, ip \in Addresses :
       Connection([ sessionId |-> sid, params |-> params, ip |-> ip,
                    port |-> PortOf(Cardinality(DOMAIN ws) + 1) ])
  \/ \E t \in Transports : ClientClosing(t)
  \/ \E t \in Transports, code \in CloseCodes : ClientClose(t, code)
  \/ \E s \in Ids : UpstreamConnect(s)
  \/ \E s \in Ids, data \in EnvironChunks :
       chunks < MaxChunks /\ UpstreamData(s, data)
  \/ \E s \in Ids : UpstreamLost(s)
  \/ \E s \in Ids : UpstreamClose(s)

SpecAddress == Init /\ [][NextAddress]_vars

\* --- session ids as drawn: generateSessionId() may return any id ---

\* the id of the session the connection of transport record w created, Null
\* when it attached to a session or was turned away
CreatedBy(w) ==
  IF w.sent # <<>> /\ w.sent[1].json # <<>>
     /\ w.sent[1].json[1].type = "session"
  THEN w.sent[1].json[1].sessionId ELSE Null

\* two connections have created a session under one id.  The Session object
\* the registry held before and its upstream socket live on in the program,
\* out of reach of the registry; sess and up hold one object per id, so the
\* specification follows the program up to this point and no further.
Collided ==
  \E t1, t2 \in DOMAIN ws :
    t1 < t2 /\ CreatedBy(ws[t1]) # Null /\ CreatedBy(ws[t1]) = CreatedBy(ws[t2])

NextDrawing ==
  \/ \E sid \in {Null, StaleId} \cup DOMAIN sess, params \in HandshakeParams,
         drawn \in Ids :
       /\ ~Collided
       /\ ConnectionDrawing([ sessionId |-> sid, params |-> params,
                              ip |-> IpOf(Cardinality(DOMAIN ws) + 1),
                              port |-> PortOf(Cardinality(DOMAIN ws) + 1) ],
                            drawn)
  \/ \E t \in Transports : ~Collided /\ ClientClosing(t)
  \/ \E t \in Transports, code \in CloseCodes :
       ~Collided /\ ClientClose(t, code)
  \/ \E s \in Ids : ~Collided /\ UpstreamConnect(s)
  \/ \E s \in Ids : \E data \in AddressChunks(chunks + 1) :
       ~Collided /\ chunks < MaxChunks /\ UpstreamData(s, data)
  \/ \E tm \in timers : ~Collided /\ TimerFires(tm)

SpecDrawing == Init /\ [][NextDrawing]_vars

\* --- the browser: frames arriving at one MudClient ---
ProxyUnchanged ==
  UNCHANGED <<sessions, sess, ws, up, timers, armed, msgs, chunks, produced,
              absence, heard, received, environ>>

\* a 'reconnected' control message arrives
Reconnected(bufferedCount) ==
  /\ browser' = [onReconnected(browser, bufferedCount) EXCEPT !.events = @ + 1]
  /\ ProxyUnchanged

\* a 'bufferReplayComplete' control message arrives
BufferReplayComplete(count) ==
  /\ browser' = [onBufferReplayComplete(browser, count) EXCEPT
                   !.events = @ + 1]
  /\ ProxyUnchanged

\* a data frame arrives and yields one line of output
Line(dataString) ==
  /\ browser' = [emitMessage(browser, dataString) EXCEPT
                   !.emitted = Append(@, dataString),
                   !.buffered =
                      Append(@, browser.client.replayingBufferedMessages),
                   !.events = @ + 1]
  /\ ProxyUnchanged

NextBrowser ==
  \/ \E bufferedCount \in BufferedCounts :
       browser.events < MaxBrowserEvents /\ Reconnected(bufferedCount)
  \/ \E count \in BufferedCounts :
       browser.events < MaxBrowserEvents /\ BufferReplayComplete(count)
  \/ \E dataString \in Lines :
       browser.events < MaxBrowserEvents /\ Line(dataString)

SpecBrowser == Init /\ [][NextBrowser]_vars

\* --- the browser client at the other end of the proxy's WebSockets ---

\* frames of transport t the client has handled
Handled(B, t) == IF t \in DOMAIN B.cursor THEN B.cursor[t] ELSE 0

\* 'message' on the client's WebSocket: the next frame the proxy sent on
\* transport t arrives.  The client has one WebSocket at a time, the one of
\* its latest connection.
BrowserMessage(t) ==
  /\ t \in DOMAIN ws
  /\ t = Cardinality(DOMAIN ws)
  /\ Handled(browser, t) < Len(ws[t].sent)
  /\ browser' = [onmessage(browser, ws[t].sent[Handled(browser, t) + 1]) EXCEPT
                   !.cursor = Put(@, t, Handled(browser, t) + 1),
                   !.events = @ + 1]
  /\ ProxyUnchanged

NextReplay ==
  \/ \E sid \in {Null} \cup DOMAIN sess, params \in WireParams :
       Connection([ sessionId |-> sid, params |-> params,
                    ip |-> IpOf(Cardinality(DOMAIN ws) + 1),
                    port |-> PortOf(Cardinality(DOMAIN ws) + 1) ])
  \/ \E t \in Transports : ClientClosing(t)
  \/ \E t \in Transports, code \in CloseCodes : ClientClose(t, code)
  \/ \E s \in Ids : UpstreamConnect(s)
  \/ \E s \in Ids : chunks < MaxChunks /\ UpstreamData(s, <<65 + chunks>>)
  \/ \E t \in Transports :
       browser.events < MaxBrowserEvents /\ BrowserMessage(t)

SpecReplay == Init /\ [][NextReplay]_vars

\* --- the browser client connecting, closing and reconnecting ---

\* the user connects
UserConnect ==
  /\ browser' = [connect(browser) EXCEPT !.userClosed = FALSE]
  /\ ProxyUnchanged

\* the user disconnects
UserClose ==
  /\ browser' = [close(browser) EXCEPT !.userClosed = TRUE]
  /\ ProxyUnchanged

\* 'open' on socket i
SocketOpen(i) ==
  /\ i \in DOMAIN browser.sockets
  /\ browser.sockets[i] = "CONNECTING"
  /\ browser' = onopen(browser, i)
  /\ ProxyUnchanged

\* 'close' on socket i: the closing handshake ends, the connection fails or
\* is lost
SocketClose(i) ==
  /\ i \in DOMAIN browser.sockets
  /\ browser.sockets[i] # "CLOSED"
  /\ browser' = onclose(browser, i)
  /\ ProxyUnchanged

\* the k-th pending reconnect timer fires
ReconnectTimer(k) ==
  /\ k \in DOMAIN browser.reconnects
  /\ browser' = onReconnectTimer(browser, k)
  /\ ProxyUnchanged

NextClient ==
  \/ Len(browser.sockets) < MaxSockets /\ UserConnect
  \/ UserClose
  \/ \E i \in 1..MaxSockets : SocketOpen(i)
  \/ \E i \in 1..MaxSockets : SocketClose(i)
  \/ \E k \in 1..MaxSockets :
       Len(browser.sockets) < MaxSockets /\ ReconnectTimer(k)

SpecClient == Init /\ [][NextClient]_vars

\* --- the reply builder alone: buildNewEnvironResponse on drawn arguments ---
BuildResponse(varName, value) ==
  /\ environ' = [ varName |-> varName, value |-> value,
                  reply |-> buildNewEnvironResponse(varName, value) ]
  /\ UNCHANGED <<sessions, sess, ws, up, timers, armed, msgs, chunks,
                 produced, absence, heard, received, browser>>

NextEscape ==
  \E varName \in VarNames, value \in Values : BuildResponse(varName, value)

SpecEscape == Init /\ [][NextEscape]_vars

(***************************************************************************)
(* Vocabulary of the properties                                            *)
(***************************************************************************)
\* the step accepts transport t with a handshake naming registered session s
Reattach(t, s) ==
  /\ t \notin DOMAIN ws
  /\ t \in DOMAIN ws'
  /\ s \in sessions
  /\ ws'[t].sessionId = s

\* the step is the 'close' event of transport t
CloseEvent(t) ==
  /\ t \in DOMAIN ws
  /\ ws[t].readyState # "CLOSED"
  /\ ws'[t].readyState = "CLOSED"

\* the step is an upstream 'data' event whose passThrough for s is not empty
Yields(s) ==
  /\ s \in DOMAIN produced
  /\ produced'[s] # produced[s]

LastOf(seq) == seq[Len(seq)]

ReconnectedFrame(s, n) ==
  ControlFrame([type |-> "reconnected", sessionId |-> s, bufferedCount |-> n])

IsReconnected(frame) ==
  /\ frame.json # <<>>
  /\ frame.json[1].type = "reconnected"

FramesOf(buffer) == [j \in 1..Len(buffer) |-> DataFrame(buffer[j].data)]

DataOf(buffer) == [j \in 1..Len(buffer) |-> buffer[j].data]

\* the payloads of the data frames in a transport's outbox, in order
RECURSIVE Payloads(_)
Payloads(sent) ==
  IF sent = <<>> THEN <<>>
  ELSE IF Head(sent).json = <<>> THEN <<Head(sent).bytes>> \o Payloads(Tail(sent))
  ELSE Payloads(Tail(sent))

\* payloads sent for session s to the transports 1..t, oldest transport first
RECURSIVE Delivered(_, _)
Delivered(s, t) ==
  IF t = 0 THEN <<>>
  ELSE Delivered(s, t - 1)
         \o (IF ws[t].session = s THEN Payloads(ws[t].sent) ELSE <<>>)

RECURSIVE IsSubseq(_, _)
IsSubseq(a, b) ==
  IF a = <<>> THEN TRUE
  ELSE IF b = <<>> THEN FALSE
  ELSE IF Head(a) = Head(b) THEN IsSubseq(Tail(a), Tail(b))
  ELSE IsSubseq(a, Tail(b))

\* chunks the filter yielded for s since its client last became null
Arrived(s) == SubSeq(produced[s], absence[s].mark + 1, Len(produced[s]))

LastN(seq, n) == SubSeq(seq, Len(seq) - n + 1, Len(seq))

(***************************************************************************)
(* C1: a reattach to a registered session sends one 'reconnected' message  *)
(* whose bufferedCount is the number of buffered entries, then exactly     *)
(* those entries as data frames in FIFO order, and leaves the buffer empty *)
(* with bufferSize 0.                                                      *)
(***************************************************************************)
C1_ReattachDrains ==
  [][\A t \in Transports, s \in Ids :
       Reattach(t, s) =>
         /\ ws'[t].sent = <<ReconnectedFrame(s, Len(sess[s].buffer))>>
                            \o FramesOf(sess[s].buffer)
         /\ sess'[s].buffer = <<>>
         /\ sess'[s].bufferSize = 0]_vars

C1_Witness ==
  \E t \in DOMAIN ws :
    /\ Len(ws[t].sent) = 3
    /\ IsReconnected(ws[t].sent[1])
    /\ ws[t].sent[1].json[1].bufferedCount = 2
    /\ sess[ws[t].session].buffer = <<>>

(***************************************************************************)
(* C2: the chunks delivered to a session's client transports, followed by  *)
(* the chunks waiting in its buffer, are in the order upstream produced    *)
(* them; with C1 the buffered chunks reach a new transport before any      *)
(* later chunk.                                                            *)
(***************************************************************************)
C2_OrderPreserved ==
  \A s \in DOMAIN sess :
    IsSubseq(Delivered(s, Cardinality(DOMAIN ws)) \o DataOf(sess[s].buffer),
             produced[s])

C2_Witness ==
  \E t \in DOMAIN ws :
    /\ Len(ws[t].sent) = 3
    /\ IsReconnected(ws[t].sent[1])
    /\ ws[t].sent[1].json[1].bufferedCount = 1
    /\ \E u \in DOMAIN ws : u < t /\ Payloads(ws[u].sent) # <<>>

(***************************************************************************)
(* C3: every non-empty passThrough chunk of a registered session is sent   *)
(* to the session's client transport or handed to bufferMessage.           *)
(***************************************************************************)
C3_ChunkNeverDiscarded ==
  [][\A s \in sessions :
       Yields(s) =>
         \/ /\ sess[s].client # Null
            /\ ws'[sess[s].client].sent =
                 Append(ws[sess[s].client].sent, DataFrame(LastOf(produced'[s])))
         \/ sess'[s] =
              bufferMessage(
                [sess[s] EXCEPT !.telnetEnvHandler = sess'[s].telnetEnvHandler],
                LastOf(produced'[s]))]_vars

(***************************************************************************)
(* C4: the replay buffer holds at most config.maxBufferLines entries and   *)
(* bufferSize lies between 0 and 10 MiB.                                   *)
(***************************************************************************)
C4_BufferBounds ==
  \A s \in DOMAIN sess :
    /\ Len(sess[s].buffer) <= sess[s].config.maxBufferLines
    /\ 0 <= sess[s].bufferSize
    /\ sess[s].bufferSize <= MAX_BUFFER_SIZE_BYTES

(***************************************************************************)
(* C5: a session whose client field holds a transport has an empty replay  *)
(* buffer.                                                                 *)
(***************************************************************************)
C5_EmptyWhenAttached ==
  \A s \in DOMAIN sess :
    sess[s].client # Null => sess[s].buffer = <<>> /\ sess[s].bufferSize = 0

C5_Witness ==
  \E s \in sessions :
    /\ sess[s].client # Null
    /\ Len(ws[sess[s].client].sent) >= 2
    /\ IsReconnected(ws[sess[s].client].sent[1])
    /\ ws[sess[s].client].sent[1].json[1].bufferedCount >= 1
    /\ sess[s].buffer = <<>>

(***************************************************************************)
(* C6: at most one open transport has its inbound frames processed for a   *)
(* session.                                                                *)
(***************************************************************************)
Attached(s) ==
  {t \in DOMAIN ws : ws[t].readyState = "OPEN" /\ ws[t].session = s}

C6_AtMostOneAttached ==
  \A s \in DOMAIN sess : Cardinality(Attached(s)) <= 1

(***************************************************************************)
(* C7: when more than maxBufferLines chunks (total under 10 MiB) arrive    *)
(* while the client is absent, maxBufferLines being the limit in force     *)
(* throughout the absence, the buffer holds exactly the last               *)
(* maxBufferLines of them in arrival order,                                *)
(* and a reattach reports bufferedCount = maxBufferLines and delivers      *)
(* exactly those chunks.                                                   *)
(***************************************************************************)
Overflowed(s) ==
  /\ s \in sessions
  /\ sess[s].client = Null
  /\ absence[s].stable
  /\ Len(Arrived(s)) > sess[s].config.maxBufferLines
  /\ ByteLength(Concat(Arrived(s))) < MAX_BUFFER_SIZE_BYTES

C8_OversizeLeavesBuffer ==
  [][\A s \in sessions :
       /\ Yields(s)
       /\ ByteLength(LastOf(produced'[s])) > MAX_BUFFER_SIZE_BYTES
       /\ sess[s].client = Null
       => /\ sess'[s].buffer = sess[s].buffer
          /\ sess'[s].bufferSize = sess[s].bufferSize
          /\ s \in sessions']_vars

(***************************************************************************)
(* C9: when the attached client transport closes with status 1000 the      *)
(* session is removed from the registry, its upstream socket is destroyed  *)
(* and no timer is armed, whatever persistenceTimeout is.                  *)
(***************************************************************************)
C9_NormalClosureCleansUp ==
  [][\A t \in Transports, s \in sessions :
       /\ CloseEvent(t)
       /\ ws'[t].closeCode = NormalClosure
       /\ sess[s].client = t
       => /\ s \notin sessions'
          /\ up'[s].destroyed
          /\ timers' \subseteq timers
          /\ \A tm \in timers' : tm.id # sess'[s].cleanupTimeout]_vars

C9_Witness ==
  \E t \in DOMAIN ws :
    /\ ws[t].readyState = "CLOSED"
    /\ ws[t].closeCode = NormalClosure
    /\ ws[t].session # Null
    /\ LET s == ws[t].session
       IN  /\ s \notin sessions
           /\ sess[s].config.persistenceTimeout > 0
           /\ ~up[s].closeEmitted
           /\ up[s].connected
           /\ Cardinality({u \in DOMAIN ws : ws[u].session = s}) = 1

(***************************************************************************)
(* C10: a handshake whose sessionId matches no registered session gets the *)
(* control message error "Session not found" and a closed transport, and   *)
(* creates no session and opens no upstream connection.                    *)
(***************************************************************************)
C10_UnknownSessionRejected ==
  [][\A t \in Transports :
       /\ t \notin DOMAIN ws
       /\ t \in DOMAIN ws'
       /\ ws'[t].sessionId # Null
       /\ ws'[t].sessionId \notin sessions
       => /\ ws'[t].sent =
               <<ControlFrame([type |-> "error", error |-> "Session not found"])>>
          /\ ws'[t].readyState # "OPEN"
          /\ sessions' = sessions
          /\ DOMAIN sess' = DOMAIN sess
          /\ DOMAIN up' = DOMAIN up]_vars

(***************************************************************************)
(* C11: when the session's client transport closes with a status other     *)
(* than 1000 while upstream is alive and config.persistenceTimeout is 0,   *)
(* that same step removes the session from the registry and destroys its   *)
(* upstream socket, and no timer is armed.                                 *)
(***************************************************************************)
AbnormalClose(t, s) ==
  /\ CloseEvent(t)
  /\ ws'[t].closeCode # NormalClosure
  /\ s \in sessions
  /\ sess[s].client = t
  /\ isUpstreamAlive(World, s)

C11_ZeroTimeoutCleansUp ==
  [][\A t \in Transports, s \in Ids :
       AbnormalClose(t, s) /\ sess[s].config.persistenceTimeout = 0
       => /\ s \notin sessions'
          /\ up'[s].destroyed
          /\ armed' = armed
          /\ timers' \subseteq timers]_vars

C11_Witness ==
  \E t \in DOMAIN ws :
    /\ ws[t].readyState = "CLOSED"
    /\ ws[t].closeCode # NormalClosure
    /\ ws[t].closeSent = <<>>
    /\ ws[t].session # Null
    /\ LET s == ws[t].session
       IN  /\ s \notin sessions
           /\ sess[s].config.persistenceTimeout = 0
           /\ sess[s].disconnectedAt # Null
           /\ up[s].connected /\ up[s].destroyed /\ ~up[s].closeEmitted
           /\ armed = 0
           /\ Cardinality({u \in DOMAIN ws : ws[u].session = s}) = 1

(***************************************************************************)
(* C12: when the session's client transport closes with a status other     *)
(* than 1000 while upstream is alive and config.persistenceTimeout > 0,    *)
(* the session stays registered with its upstream socket untouched, client *)
(* null and disconnectedAt set, and one timer is armed with the            *)
(* persistenceTimeout then in force; a later connection naming the         *)
(* session while it is registered becomes its client on that same          *)
(* upstream socket.                                                        *)
(***************************************************************************)
IsPrefix(a, b) == Len(a) <= Len(b) /\ SubSeq(b, 1, Len(a)) = a

C12_PersistsAndRejoins ==
  /\ [][\A t \in Transports, s \in Ids :
          AbnormalClose(t, s) /\ sess[s].config.persistenceTimeout > 0
          => /\ s \in sessions'
             /\ up' = up
             /\ sess'[s].client = Null
             /\ sess'[s].disconnectedAt # Null
             /\ armed' = armed + 1
             /\ sess'[s].cleanupTimeout = armed'
             /\ timers' = timers \cup
                  {[ id |-> armed', session |-> s,
                     ms |-> sess[s].config.persistenceTimeout ]}]_vars
  /\ [][\A t \in Transports, s \in Ids :
          Reattach(t, s)
          => /\ sess'[s].client = t
             /\ ws'[t].session = s
             /\ s \in sessions'
             /\ DOMAIN up' = DOMAIN up
             /\ [up'[s] EXCEPT !.written = up[s].written] = up[s]
             /\ IsPrefix(up[s].written, up'[s].written)]_vars

C12_Witness ==
  \E t \in DOMAIN ws, u \in DOMAIN ws :
    /\ ws[u].readyState = "CLOSED"
    /\ ws[u].closeCode # NormalClosure
    /\ ws[t].readyState = "OPEN"
    /\ ws[t].session = ws[u].session
    /\ ws[t].sent # <<>>
    /\ IsReconnected(ws[t].sent[1])
    /\ LET s == ws[t].session
       IN  /\ s \in sessions
           /\ sess[s].client = t
           /\ sess[s].config.persistenceTimeout = 60000
           /\ armed = 1
           /\ timers = {}
           /\ isUpstreamAlive(World, s)

(***************************************************************************)
(* C13: the 'close' event of a session's upstream socket closes the        *)
(* session's client transport, when it is open, with status 1000 and       *)
(* leaves the session out of the registry; a connection naming that        *)
(* session id afterwards is not attached to the session.                   *)
(***************************************************************************)
UpstreamCloseEvent(s) ==
  /\ s \in DOMAIN up
  /\ ~up[s].closeEmitted
  /\ up'[s].closeEmitted

MessageEvent(t) ==
  /\ t \in DOMAIN received
  /\ t \in DOMAIN received'
  /\ Len(received'[t]) = Len(received[t]) + 1

LastFrame(t) == LastOf(received'[t]).frame

IsControl(frame) == Len(frame.bytes) > 0 /\ frame.bytes[1] = 0

IsUpdateConfig(frame) ==
  /\ frame.bytes = <<0>>
  /\ frame.json # <<>>
  /\ frame.json[1].type = "updateConfig"

\* bytes of the frames of one transport that were due to be forwarded
RECURSIVE Forwardable(_)
Forwardable(rs) ==
  IF rs = <<>> THEN <<>>
  ELSE (IF Head(rs).alive /\ ~IsControl(Head(rs).frame)
        THEN <<Head(rs).frame.bytes>> ELSE <<>>) \o Forwardable(Tail(rs))

\* number of positions of buf at which pattern occurs
Occurrences(pattern, buf) ==
  Cardinality({i \in 1..(Len(buf) - Len(pattern) + 1) :
                 \A j \in 1..Len(pattern) : buf[i + j - 1] = pattern[j]})

\* the set of bytes of a buffer
BytesOf(buf) == {buf[k] : k \in DOMAIN buf}

\* end positions in WireStream of IAC DO NEW_ENVIRON and of the SEND request
DoEnd ==
  CHOOSE i \in 3..Len(WireStream) :
    SubSeq(WireStream, i - 2, i) = <<IAC, DO, NEW_ENVIRON>>

SendEnd ==
  CHOOSE i \in 2..Len(WireStream) : SubSeq(WireStream, i - 1, i) = <<IAC, SE>>

\* every payload byte handed to a client transport or kept for replay
Forwarded(s) ==
  Concat(Delivered(s, Cardinality(DOMAIN ws))) \o Concat(DataOf(sess[s].buffer))

(***************************************************************************)
(* C14: a client frame whose first byte is 0x00 leaves the upstream socket *)
(* untouched whether or not its remainder parses; any other client frame   *)
(* received while upstream is alive is appended to the upstream writes     *)
(* byte for byte, so the frames of a transport reach upstream in the order *)
(* they were received.                                                     *)
(***************************************************************************)
C14_ControlNeverForwarded ==
  /\ [][\A t \in Transports :
          MessageEvent(t) =>
            LET f == LastFrame(t)
                s == ws[t].session
            IN  /\ IsControl(f) => up' = up
                /\ ~IsControl(f) /\ isUpstreamAlive(World, s)
                     => up' = [up EXCEPT ![s].written = Append(@, f.bytes)]]_vars
  /\ [](\A t \in DOMAIN received :
          ws[t].session # Null =>
            IsSubseq(Forwardable(received[t]), up[ws[t].session].written))
  /\ [](\A s \in DOMAIN up : \A k \in 1..Len(up[s].written) :
          up[s].written[k][1] # 0)

C14_Witness ==
  \E t \in DOMAIN received :
    /\ Len(received[t]) = 2
    /\ Forwardable(received[t]) = << <<108, 10>>, <<110, 10>> >>
    /\ IsSubseq(Forwardable(received[t]), up[ws[t].session].written)

(***************************************************************************)
(* C15: no data frame the proxy sends to a client, live or replayed, is    *)
(* taken for a control message by the client: its remainder is never       *)
(* given to the JSON parser.                                               *)
(***************************************************************************)
C15_DataNeverParsedAsControl ==
  \A t \in DOMAIN ws : \A k \in 1..Len(ws[t].sent) :
    ws[t].sent[k].json = <<>> => ~handleProxyMessage(ws[t].sent[k]).parsed

(***************************************************************************)
(* C16: config.persistenceTimeout and config.maxBufferLines always lie     *)
(* within their limits, and an updateConfig message stores, for each       *)
(* field, the number clamped to the limits when the field is a number and  *)
(* the default when it is absent or not a number.                          *)
(***************************************************************************)
ClampedOrDefault(value, limits) ==
  IF value.kind = "number"
  THEN (IF value.n < limits.MIN THEN limits.MIN
        ELSE IF value.n > limits.MAX THEN limits.MAX ELSE value.n)
  ELSE limits.DEFAULT

ConfigAsked(message) ==
  [ persistenceTimeout |->
      ClampedOrDefault(message.persistenceTimeout,
                       CONFIG_LIMITS.PERSISTENCE_TIMEOUT),
    maxBufferLines |->
      ClampedOrDefault(message.maxBufferLines, CONFIG_LIMITS.BUFFER_LINES) ]

C16_ConfigClampedOrDefaulted ==
  /\ [](\A s \in DOMAIN sess :
          /\ sess[s].config.persistenceTimeout >= CONFIG_LIMITS.PERSISTENCE_TIMEOUT.MIN
          /\ sess[s].config.persistenceTimeout <= CONFIG_LIMITS.PERSISTENCE_TIMEOUT.MAX
          /\ sess[s].config.maxBufferLines >= CONFIG_LIMITS.BUFFER_LINES.MIN
          /\ sess[s].config.maxBufferLines <= CONFIG_LIMITS.BUFFER_LINES.MAX)
  /\ [][\A t \in Transports :
          MessageEvent(t) /\ IsUpdateConfig(LastFrame(t))
          => sess'[ws[t].session].config = ConfigAsked(LastFrame(t).json[1])]_vars

(***************************************************************************)
(* C17: an updateConfig message replaces the session's config by the       *)
(* clamped values, sends one configUpdated message carrying the stored     *)
(* values, and changes nothing else: not the client, the buffer, the       *)
(* upstream socket or a running persistence timer.                         *)
(***************************************************************************)
C17_UpdateConfigEffect ==
  [][\A t \in Transports :
       MessageEvent(t) /\ IsUpdateConfig(LastFrame(t))
       => LET s == ws[t].session
              config == ConfigAsked(LastFrame(t).json[1])
          IN  /\ sess' = [sess EXCEPT ![s].config = config]
              /\ \E u \in DOMAIN ws :
                   ws' = [ws EXCEPT ![u].sent =
                            Append(@, ControlFrame([ type |-> "configUpdated",
                                                     config |-> config ]))]
              /\ up' = up
              /\ timers' = timers
              /\ armed' = armed
              /\ sessions' = sessions]_vars

(***************************************************************************)
(* C18: a client frame whose first byte is 0x00 and whose remainder is not *)
(* valid JSON, or is JSON other than an updateConfig message, changes      *)
(* nothing: no session field, no upstream write, no frame to any client,   *)
(* and the session stays registered with its client.                       *)
(***************************************************************************)
C18_BadControlIgnored ==
  [][\A t \in Transports :
       /\ MessageEvent(t)
       /\ IsControl(LastFrame(t))
       /\ ~IsUpdateConfig(LastFrame(t))
       => UNCHANGED <<sessions, sess, ws, up, timers, armed>>]_vars

C18_Witness ==
  \E t \in DOMAIN received :
    /\ Len(received[t]) = 2
    /\ received[t][1].frame.json # <<>>
    /\ received[t][1].frame.json[1].type = "ping"
    /\ received[t][2].frame.bytes = <<0, 123>>
    /\ ws[t].session \in sessions
    /\ sess[ws[t].session].client = t
    /\ ws[t].readyState = "OPEN"

(***************************************************************************)
(* C19: once IAC DO NEW_ENVIRON has arrived from upstream, in one segment  *)
(* or split over several, IAC WILL NEW_ENVIRON has been written upstream   *)
(* exactly once and newEnvironNegotiated is true; before that neither is   *)
(* the case; and none of the three bytes is ever sent to a client or put   *)
(* in the replay buffer.                                                   *)
(***************************************************************************)
C19_DoNewEnvironAnswered ==
  \A s \in DOMAIN heard :
    LET written == Concat(up[s].written)
        wills   == Occurrences(<<IAC, WILL, NEW_ENVIRON>>, written)
    IN  /\ IsPrefix(heard[s], WireStream)
        /\ Len(heard[s]) >= DoEnd
             => wills = 1 /\ sess[s].telnetEnvHandler.newEnvironNegotiated
        /\ Len(heard[s]) < DoEnd
             => wills = 0 /\ ~sess[s].telnetEnvHandler.newEnvironNegotiated
        /\ BytesOf(Forwarded(s)) \cap {IAC, DO, NEW_ENVIRON} = {}
        /\ BytesOf(Concat(produced[s])) \cap {IAC, DO, NEW_ENVIRON} = {}

C19_Witness ==
  \E s \in DOMAIN heard :
    /\ Len(heard[s]) = DoEnd
    /\ chunks = 3
    /\ sess[s].telnetEnvHandler.newEnvironNegotiated
    /\ produced[s] = << <<65>> >>
    /\ LastOf(up[s].written) = <<IAC, WILL, NEW_ENVIRON>>

(***************************************************************************)
(* C20: the segment that completes NEW_ENVIRON SEND VAR "IPADDRESS" makes  *)
(* the proxy write upstream exactly IAC SB NEW_ENVIRON IS VAR "IPADDRESS"  *)
(* VALUE <client ip> IAC SE (after IAC WILL NEW_ENVIRON when the same      *)
(* segment carried the DO), and for client ip 203.0.113.7 these bytes are  *)
(* FF FA 27 00 00 "IPADDRESS" 01 "203.0.113.7" FF F0.                      *)
(***************************************************************************)
ReplyFor203 ==
  <<255, 250, 39, 0, 0, 73, 80, 65, 68, 68, 82, 69, 83, 83, 1,
    50, 48, 51, 46, 48, 46, 49, 49, 51, 46, 55, 255, 240>>

Dotted203 == <<50, 48, 51, 46, 48, 46, 49, 49, 51, 46, 55>>

C20_SendAnsweredExactly ==
  [][\A s \in Ids :
       /\ s \in DOMAIN heard
       /\ Len(heard[s]) < SendEnd
       /\ Len(heard'[s]) >= SendEnd
       => LET will  == IF Len(heard[s]) < DoEnd
                       THEN <<IAC, WILL, NEW_ENVIRON>> ELSE <<>>
              reply == <<IAC, SB, NEW_ENVIRON, 0, 0>> \o IPADDRESS \o <<1>>
                         \o sess[s].clientIp \o <<IAC, SE>>
          IN  /\ up'[s].written = Append(up[s].written, will \o reply)
              /\ sess[s].clientIp = Dotted203 => reply = ReplyFor203]_vars

(***************************************************************************)
(* Vocabulary of the filter properties                                     *)
(***************************************************************************)
\* Telnet: inside a subnegotiation IAC IAC stands for one byte 0xFF
RECURSIVE Undoubled(_)
Undoubled(payload) ==
  IF Len(payload) < 2 THEN payload
  ELSE IF payload[1] = IAC /\ payload[2] = IAC
       THEN <<IAC>> \o Undoubled(SubSeq(payload, 3, Len(payload)))
  ELSE <<payload[1]>> \o Undoubled(Tail(payload))

\* the names a SEND payload lists, read byte by byte: VAR or USERVAR opens
\* a name, ESC makes the next byte part of the name, a name with no bytes
\* names nothing.  st = [names, open, cur, esc]
RECURSIVE NamesListed(_, _)
NamesListed(payload, st) ==
  LET closed == IF st.open /\ st.cur # <<>> THEN Append(st.names, st.cur)
                ELSE st.names
  IN  IF payload = <<>> THEN closed
      ELSE LET b == Head(payload) IN
        IF st.esc
        THEN NamesListed(Tail(payload),
               [st EXCEPT !.cur = Append(@, b), !.esc = FALSE])
        ELSE IF b \in {NE_VAR, NE_USERVAR}
        THEN NamesListed(Tail(payload),
               [names |-> closed, open |-> TRUE, cur |-> <<>>, esc |-> FALSE])
        ELSE IF b = NE_ESC /\ st.open
        THEN NamesListed(Tail(payload), [st EXCEPT !.esc = TRUE])
        ELSE IF st.open
        THEN NamesListed(Tail(payload), [st EXCEPT !.cur = Append(@, b)])
        ELSE NamesListed(Tail(payload), st)

RequestedNames(payload) ==
  NamesListed(Undoubled(payload),
    [names |-> <<>>, open |-> FALSE, cur |-> <<>>, esc |-> FALSE])

\* the SEND asks for IPADDRESS: by name, or by naming nothing
AsksForIpAddress(payload) ==
  LET names == RequestedNames(payload)
  IN  names = <<>> \/ \E k \in 1..Len(names) : names[k] = IPADDRESS

IsReply(ip) ==
  <<IAC, SB, NEW_ENVIRON, NE_IS, NE_VAR>> \o IPADDRESS \o <<NE_VALUE>>
    \o ip \o <<IAC, SE>>

(***************************************************************************)
(* C21: once a NEW_ENVIRON SEND request has arrived, however it was split, *)
(* the proxy has written the IS reply for IPADDRESS upstream exactly when  *)
(* the names the payload lists (ESC b read as the byte b) include          *)
(* IPADDRESS or are none, and nothing of the subnegotiation has gone to    *)
(* the client: the client was sent the text around it only.                *)
(***************************************************************************)
C21_SendReplyIffAsked ==
  \A s \in DOMAIN heard : \A payload \in SendPayloads :
    heard[s] = SendStream(payload)
    => LET written == Concat(up[s].written)
           replies == Occurrences(<<IAC, SB, NEW_ENVIRON, NE_IS>>, written)
       IN  /\ AsksForIpAddress(payload)
                => /\ replies = 1
                   /\ \E k \in 1..Len(up[s].written) :
                        IsPrefix(IsReply(sess[s].clientIp), up[s].written[k])
           /\ ~AsksForIpAddress(payload) => replies = 0
           /\ Concat(produced[s]) = <<65, 66>>
           /\ Forwarded(s) = <<65, 66>>

(***************************************************************************)
(* C22: a reattach writes IAC SB NEW_ENVIRON INFO VAR "IPADDRESS" VALUE    *)
(* <new ip> IAC SE upstream exactly when the new client's address differs  *)
(* from session.clientIp, the filter has negotiated NEW_ENVIRON and        *)
(* upstream is alive; any other reattach writes nothing upstream.          *)
(***************************************************************************)
InfoFor(ip) ==
  <<IAC, SB, NEW_ENVIRON, NE_INFO, NE_VAR>> \o IPADDRESS \o <<NE_VALUE>>
    \o ip \o <<IAC, SE>>

C22_InfoOnAddressChange ==
  [][\A t \in Transports, s \in Ids :
       Reattach(t, s)
       => LET newIp == ws'[t].remoteAddress
          IN  IF /\ newIp # sess[s].clientIp
                 /\ sess[s].telnetEnvHandler.newEnvironNegotiated
                 /\ isUpstreamAlive(World, s)
              THEN up' = [up EXCEPT ![s].written = Append(@, InfoFor(newIp))]
              ELSE up' = up]_vars

(***************************************************************************)
(* C23: for an upstream byte stream without IAC DO NEW_ENVIRON and without *)
(* IAC SB NEW_ENVIRON, split into chunks anywhere, the passthrough outputs *)
(* put together equal the input, and nothing is written upstream in reply. *)
(* This is the statement as claimed; the filter holds back an unfinished   *)
(* IAC sequence, so it fails for a stream that ends inside one.            *)
(***************************************************************************)
IsClean(stream) ==
  /\ Occurrences(<<IAC, DO, NEW_ENVIRON>>, stream) = 0
  /\ Occurrences(<<IAC, SB, NEW_ENVIRON>>, stream) = 0

\* nothing but the PROXY header was written to the upstream socket of s
NoReply(s) ==
  /\ Len(up[s].written) <= 1
  /\ IAC \notin BytesOf(Concat(up[s].written))
  /\ ~sess[s].telnetEnvHandler.newEnvironNegotiated

C23_PassthroughEqualsInput ==
  \A s \in DOMAIN heard :
    IsClean(heard[s]) => Concat(produced[s]) = heard[s] /\ NoReply(s)

(***************************************************************************)
(* C23, amended: for such a stream and any split, the passthrough outputs  *)
(* followed by the bytes the filter holds back equal the input; the bytes  *)
(* held back are none or an unfinished IAC sequence, none when the stream  *)
(* ends where a command ends; the client was sent exactly the passthrough  *)
(* outputs; and nothing is written upstream in reply.                      *)
(***************************************************************************)
C23_PassthroughAndHeldBack ==
  \A s \in DOMAIN heard :
    IsClean(heard[s])
    => LET held == sess[s].telnetEnvHandler.parseBuffer
       IN  /\ Concat(produced[s]) \o held = heard[s]
           /\ Forwarded(s) = Concat(produced[s])
           /\ held = <<>> \/ held[1] = IAC
           /\ heard[s] \in CompleteStreams => held = <<>>
           /\ NoReply(s)

C23_Witness ==
  \E s \in DOMAIN heard :
    /\ heard[s] = <<65, IAC, SB, 201, 7, IAC, SE, IAC, 241, 66>>
    /\ chunks = 3
    /\ produced[s] = << <<65, IAC, SB, 201, 7, IAC, SE>>, <<IAC, 241, 66>> >>
    /\ sess[s].telnetEnvHandler.parseBuffer = <<>>
    /\ Forwarded(s) = heard[s]

(***************************************************************************)
(* C24: cleanupSession is idempotent.  In every reachable state, a second  *)
(* call for the same id gives the state the first call gave, and a call    *)
(* for an id that is not registered gives the state it was called in; and  *)
(* the events that follow a cleanup (the 'close' of the upstream socket,   *)
(* the 'close' of a client transport, a leftover timer), which call        *)
(* cleanupSession again, leave the registry, the registered sessions, the  *)
(* timers, the upstream sockets and the client transports as they were,    *)
(* apart from the event itself.                                            *)
(***************************************************************************)
\* the step is an event of session s: the 'close' of its upstream socket,
\* the 'close' of one of its transports, or one of its timers firing
EventOf(s) ==
  \/ UpstreamCloseEvent(s)
  \/ \E t \in DOMAIN ws : CloseEvent(t) /\ ws[t].session = s
  \/ \E tm \in timers : tm.session = s /\ tm \notin timers'

C24_CleanupIdempotent ==
  /\ [](\A id \in Ids \cup {StaleId} :
          LET once == cleanupSession(World, id)
          IN  /\ cleanupSession(once, id) = once
              /\ id \notin sessions => once = World)
  /\ [][\A s \in Ids :
          s \in DOMAIN sess /\ s \notin sessions /\ EventOf(s)
          => /\ sessions' = sessions
             /\ armed' = armed
             /\ timers' \subseteq timers
             /\ Cardinality(timers') >= Cardinality(timers) - 1
             /\ \A x \in sessions : sess'[x] = sess[x]
             /\ \A u \in DOMAIN up :
                  up'[u] = [up[u] EXCEPT !.closeEmitted = up'[u].closeEmitted]
             /\ \A t \in DOMAIN ws :
                  ws'[t] = [ws[t] EXCEPT !.readyState = ws'[t].readyState,
                                         !.closeCode = ws'[t].closeCode]
             /\ \A t \in DOMAIN ws :
                  ws'[t].readyState # ws[t].readyState => CloseEvent(t)]_vars

C24_Witness ==
  \E s \in DOMAIN sess :
    /\ s \notin sessions
    /\ up[s].destroyed
    /\ up[s].closeEmitted
    /\ Cardinality(DOMAIN ws) = 2
    /\ \A t \in DOMAIN ws : ws[t].session = s /\ ws[t].readyState = "CLOSED"
    /\ armed = 2
    /\ timers = {}

(***************************************************************************)
(* C25: with useProxyProtocol set, whatever has been written to the        *)
(* upstream socket of a session starts with the PROXY v1 header line, the  *)
(* header is written exactly once when the socket has connected and never  *)
(* more than once: no client payload and no filter reply precedes it.      *)
(***************************************************************************)
\* "PROXY " ... CR LF
IsProxyHeader(buf) ==
  /\ Len(buf) >= 8
  /\ SubSeq(buf, 1, 6) = <<80, 82, 79, 88, 89, 32>>
  /\ SubSeq(buf, Len(buf) - 1, Len(buf)) = <<13, 10>>

C25_ProxyHeaderFirst ==
  ProxyConfig.useProxyProtocol
  => \A s \in DOMAIN up :
       LET written == up[s].written
           headers == Cardinality({k \in 1..Len(written) :
                                     IsProxyHeader(written[k])})
       IN  /\ written # <<>> => IsProxyHeader(written[1])
           /\ headers <= 1
           /\ up[s].connected => headers = 1

(***************************************************************************)
(* C26: every non-blank 'message' event the client emits reaches the "all" *)
(* buffer, in the order of emission, however message events and replay     *)
(* starts interleave: at any moment the texts in "all", followed by the    *)
(* texts waiting in the hook's queue for the end of the replay, are the    *)
(* non-blank texts emitted so far, in order.  (A text in neither has been  *)
(* dropped and cannot reach "all" any more.)                               *)
(***************************************************************************)
Texts(messages) == [k \in DOMAIN messages |-> messages[k].message]

RECURSIVE NonBlank(_)
NonBlank(texts) ==
  IF texts = <<>> THEN <<>>
  ELSE (IF \E k \in DOMAIN Head(texts) : Head(texts)[k] # 32
        THEN <<Head(texts)>> ELSE <<>>) \o NonBlank(Tail(texts))

C26_MessagesReachAll ==
  Texts(browser.hook.all) \o Texts(browser.hook.bufferedMessagesQueue)
    = NonBlank(browser.emitted)

(***************************************************************************)
(* C27: at most one persistence timer is pending for a session at any      *)
(* time, and once a reattach has given the session a client no timer armed *)
(* earlier is left to fire and evict it: while a registered session has a  *)
(* client, no timer is pending for it.                                     *)
(***************************************************************************)
PendingFor(s) == {tm \in timers : tm.session = s}

C27_OneTimerPerSession ==
  \A s \in DOMAIN sess :
    /\ Cardinality(PendingFor(s)) <= 1
    /\ s \in sessions /\ sess[s].client # Null => PendingFor(s) = {}

(***************************************************************************)
(* C28: for a registered session a persistence timer is pending if and     *)
(* only if the session has no client, upstream is alive,                   *)
(* config.persistenceTimeout > 0 and its last disconnect was not a normal  *)
(* closure; and no timer is pending for a session that has been cleaned    *)
(* up.  Upstream counts as alive here until its 'close' event has been     *)
(* handled, the moment the session is cleaned up.                          *)
(***************************************************************************)
\* the closed transports of s, and none of them closed normally
DisconnectedAbnormally(s) ==
  LET closed == {t \in DOMAIN ws : ws[t].session = s
                                    /\ ws[t].readyState = "CLOSED"}
  IN  /\ closed # {}
      /\ \A t \in closed : ws[t].closeCode # NormalClosure

C28_TimerIffPersisting ==
  \A s \in DOMAIN sess :
    /\ s \in sessions
         => /\ PendingFor(s) # {}
                 => /\ sess[s].client = Null
                    /\ isUpstreamAlive(World, s) \/ ~up[s].closeEmitted
                    /\ sess[s].config.persistenceTimeout > 0
                    /\ DisconnectedAbnormally(s)
            /\ /\ sess[s].client = Null
               /\ isUpstreamAlive(World, s)
               /\ sess[s].config.persistenceTimeout > 0
               /\ DisconnectedAbnormally(s)
               => PendingFor(s) # {}
    /\ s \notin sessions => PendingFor(s) = {}

(***************************************************************************)
(* C29: in every reachable state session.bufferSize is the sum of the byte *)
(* lengths of the entries in session.buffer, whatever appends, line-limit  *)
(* evictions, size-limit evictions, oversize drops and reattach drains     *)
(* have happened.                                                          *)
(***************************************************************************)
RECURSIVE SumOfLengths(_)
SumOfLengths(buffer) ==
  IF buffer = <<>> THEN 0
  ELSE ByteLength(Head(buffer).data) + SumOfLengths(Tail(buffer))

C29_BufferSizeIsSum ==
  \A s \in DOMAIN sess : sess[s].bufferSize = SumOfLengths(sess[s].buffer)

\* a chunk over 6 MiB was buffered and a second one has evicted it
C29_Witness ==
  \E s \in sessions :
    /\ chunks = 2
    /\ Len(Arrived(s)) = 2
    /\ Len(sess[s].buffer) = 1
    /\ sess[s].bufferSize > SixMiB
    /\ sess[s].bufferSize = ByteLength(LastOf(produced[s]))

(***************************************************************************)
(* C30: a session that is persisting (registered, no client, its timer     *)
(* pending) is eventually reattached or removed from the registry with its *)
(* upstream socket destroyed, given that a pending timer eventually fires: *)
(* no run of upstream data or other events keeps it registered without a   *)
(* client forever.                                                         *)
(***************************************************************************)
Persisting(s) ==
  /\ s \in sessions
  /\ sess[s].client = Null
  /\ PendingFor(s) # {}

C30_PersistingEnds ==
  \A s \in Ids :
    Persisting(s) ~> \/ s \in DOMAIN up /\ s \notin sessions /\ up[s].destroyed
                     \/ s \in sessions /\ sess[s].client # Null

\* the only client closed abnormally, a timer was armed, and the session
\* is gone though upstream never closed by itself
C30_Witness ==
  \E s \in DOMAIN sess :
    /\ s \notin sessions
    /\ up[s].destroyed
    /\ ~up[s].closeEmitted
    /\ Cardinality(DOMAIN ws) = 1
    /\ ws[1].readyState = "CLOSED"
    /\ ws[1].closeCode # NormalClosure
    /\ armed = 1
    /\ timers = {}
    /\ chunks = MaxChunks

(***************************************************************************)
(* C31: the filter is insensitive to chunking.  In every state, whatever   *)
(* the split of the bytes heard so far into 'data' events was, the         *)
(* passthrough outputs put together, the replies written upstream put      *)
(* together, the negotiated flag and the retained scratch bytes equal      *)
(* those of a fresh filter given the same bytes as one chunk; so any two   *)
(* splits of one stream agree on all four.                                 *)
(***************************************************************************)
\* what was written to the upstream socket of s after the PROXY header
Replies(s) ==
  IF up[s].written = <<>> THEN <<>> ELSE Concat(Tail(up[s].written))

C31_ChunkingInsensitive ==
  \A s \in DOMAIN heard :
    LET handler == sess[s].telnetEnvHandler
        whole == processUpstreamData(
                   NewTelnetEnvironHandler(handler.clientIp), heard[s])
    IN  /\ Concat(produced[s]) = whole.passThrough
        /\ Replies(s) = whole.response
        /\ handler.newEnvironNegotiated = whole.handler.newEnvironNegotiated
        /\ handler.parseBuffer = whole.handler.parseBuffer

\* the negotiating stream arrived in three chunks cut inside IAC DO
\* NEW_ENVIRON and inside the SEND request
C31_Witness ==
  \E s \in DOMAIN heard :
    /\ heard[s] \in NegotiatingStreams
    /\ chunks = 3
    /\ produced[s] = << <<65>>, <<66>> >>
    /\ sess[s].telnetEnvHandler.newEnvironNegotiated
    /\ sess[s].telnetEnvHandler.parseBuffer = <<>>
    /\ Replies(s) = buildWillNewEnviron
                      \o buildNewEnvironResponse(IPADDRESS, up[s].clientIp)

(***************************************************************************)
(* C32, as claimed: after every call of the filter on a chunk the retained *)
(* scratch buffer is empty, or the single byte IAC, or one unterminated    *)
(* subnegotiation starting with IAC SB (which may end in a lone IAC).      *)
(* The filter also holds back IAC DO, IAC DONT, IAC WILL and IAC WONT      *)
(* until the option byte arrives, which is two bytes.                      *)
(***************************************************************************)
\* held starts with IAC SB and has no IAC SE after its option byte
Unterminated(held) ==
  /\ Len(held) >= 2
  /\ held[1] = IAC /\ held[2] = SB
  /\ ~\E k \in 4..(Len(held) - 1) : held[k] = IAC /\ held[k + 1] = SE

C32_ScratchOneByteOrSubnegotiation ==
  \A s \in DOMAIN heard :
    LET held == sess[s].telnetEnvHandler.parseBuffer
    IN  held = <<>> \/ held = <<IAC>> \/ Unterminated(held)

(***************************************************************************)
(* C32, amended: after every call of the filter on a chunk the retained    *)
(* scratch buffer is empty, or an unfinished IAC command of one or two     *)
(* bytes (IAC alone, or IAC followed by DO, DONT, WILL or WONT), or one    *)
(* unterminated subnegotiation starting with IAC SB; the retained bytes    *)
(* are the end of the bytes heard, and everything before them has been     *)
(* classified: passed through or consumed by the filter.                   *)
(***************************************************************************)
C32_ScratchIsUnfinishedCommand ==
  \A s \in DOMAIN heard :
    LET held == sess[s].telnetEnvHandler.parseBuffer
    IN  /\ \/ held = <<>>
            \/ held = <<IAC>>
            \/ (Len(held) = 2 /\ held[1] = IAC
                 /\ held[2] \in {DO, DONT, WILL, WONT})
            \/ Unterminated(held)
        /\ Len(held) <= Len(heard[s])
        /\ held = LastN(heard[s], Len(held))

C32_Witness ==
  \E s \in DOMAIN heard :
    /\ heard[s] = <<66, IAC, DONT>>
    /\ chunks = 2
    /\ produced[s] = << <<66>> >>
    /\ sess[s].telnetEnvHandler.parseBuffer = <<IAC, DONT>>

(***************************************************************************)
(* C33: for an ASCII variable name n and a byte-string value v, the        *)
(* NEW_ENVIRON IS reply built from (n, v), read back as a Telnet peer      *)
(* reads it (IAC IAC is the byte 0xFF, the first other IAC must open       *)
(* IAC SE; inside, ESC b is the byte b, a bare VALUE ends the name, and a  *)
(* bare VAR, USERVAR or second VALUE is a framing byte that must not       *)
(* occur), gives exactly the name n and the value v.                       *)
(***************************************************************************)
\* position of the first IAC at or after k that is not the first of IAC IAC,
\* 0 when there is none
RECURSIVE FrameEnd(_, _)
FrameEnd(buf, k) ==
  IF k > Len(buf) THEN 0
  ELSE IF buf[k] # IAC THEN FrameEnd(buf, k + 1)
  ELSE IF k + 1 <= Len(buf) /\ buf[k + 1] = IAC THEN FrameEnd(buf, k + 2)
  ELSE k

\* one variable read from the undoubled body; st = [name, value, inValue, ok]
RECURSIVE ReadVariable(_, _, _)
ReadVariable(body, i, st) ==
  IF i > Len(body) \/ ~st.ok THEN st
  ELSE LET b == body[i]
           put(x) == IF st.inValue THEN [st EXCEPT !.value = Append(@, x)]
                     ELSE [st EXCEPT !.name = Append(@, x)]
       IN  IF b = NE_ESC
           THEN IF i + 1 <= Len(body)
                THEN ReadVariable(body, i + 2, put(body[i + 1]))
                ELSE [st EXCEPT !.ok = FALSE]
           ELSE IF b = NE_VALUE
           THEN IF st.inValue THEN [st EXCEPT !.ok = FALSE]
                ELSE ReadVariable(body, i + 1, [st EXCEPT !.inValue = TRUE])
           ELSE IF b \in {NE_VAR, NE_USERVAR} THEN [st EXCEPT !.ok = FALSE]
           ELSE ReadVariable(body, i + 1, put(b))

\* [ok, name, value, rest]: the variable of the IS subnegotiation that reply
\* begins with, and the bytes after its IAC SE
ParseReply(reply) ==
  LET end == FrameEnd(reply, 6)
      framed == /\ IsPrefix(<<IAC, SB, NEW_ENVIRON, NE_IS, NE_VAR>>, reply)
                /\ end > 0 /\ end + 1 <= Len(reply) /\ reply[end + 1] = SE
      var == ReadVariable(Undoubled(SubSeq(reply, 6, end - 1)), 1,
               [name |-> <<>>, value |-> <<>>, inValue |-> FALSE, ok |-> TRUE])
  IN  IF framed
      THEN [ ok |-> var.ok /\ var.inValue, name |-> var.name,
             value |-> var.value, rest |-> SubSeq(reply, end + 2, Len(reply)) ]
      ELSE [ok |-> FALSE, name |-> <<>>, value |-> <<>>, rest |-> <<>>]

C33_EscapeRoundTrip ==
  environ.reply # <<>>
  => LET parsed == ParseReply(environ.reply)
     IN  /\ parsed.ok
         /\ parsed.name = environ.varName
         /\ parsed.value = environ.value

\* the name "N" USERVAR with the value 0xFF 0xF0
C33_Witness ==
  /\ environ.varName = <<78, NE_USERVAR>>
  /\ environ.value = <<IAC, SE>>
  /\ IsPrefix(<<IAC, SB, NEW_ENVIRON, NE_IS, NE_VAR, 78, NE_ESC, NE_USERVAR,
                NE_VALUE, IAC, IAC, SE, IAC, SE>>, environ.reply)

(***************************************************************************)
(* C35: after every successful reattach, session.clientIp and              *)
(* session.clientPort equal the remote address and the remote port of the  *)
(* transport that has just attached.                                       *)
(***************************************************************************)
C35_ReattachRecordsAddressAndPort ==
  [][\A t \in Transports, s \in Ids :
       Reattach(t, s)
       => /\ sess'[s].clientIp = ws'[t].remoteAddress
          /\ sess'[s].clientPort = ws'[t].remotePort]_vars

(***************************************************************************)
(* C34: creating a new session never replaces or removes a registry entry: *)
(* in every step in which a connection creates a session, the id it is     *)
(* given is not registered before the step, and every session registered   *)
(* before the step is registered after it, the same object as before.      *)
(***************************************************************************)
\* the step is a connection of transport t that creates a session under id s
Creation(t, s) ==
  /\ t \notin DOMAIN ws
  /\ t \in DOMAIN ws'
  /\ CreatedBy(ws'[t]) = s

C34_CreationKeepsRegistry ==
  [][\A t \in Transports, s \in Ids :
       Creation(t, s)
       => /\ s \notin sessions
          /\ \A r \in sessions :
               /\ r \in sessions'
               /\ sess'[r].createdAt = sess[r].createdAt
               /\ sess'[r].config = sess[r].config
               /\ sess'[r].buffer = sess[r].buffer
               /\ sess'[r].client = sess[r].client]_vars

(***************************************************************************)
(* C36: when the transport that is a session's client closes while the     *)
(* session's upstream connect has not completed, that step removes the     *)
(* session from the registry and destroys its upstream socket, whatever    *)
(* the close status and persistenceTimeout are, and leaves no persistence  *)
(* timer for it.                                                           *)
(***************************************************************************)
C36_CloseBeforeConnectTearsDown ==
  [][\A t \in Transports, s \in Ids :
       /\ CloseEvent(t)
       /\ s \in sessions
       /\ sess[s].client = t
       /\ ~up[s].connected
       => /\ s \notin sessions'
          /\ up'[s].destroyed
          /\ \A tm \in timers' : tm.session # s]_vars

(***************************************************************************)
(* C37: the 'close' event of a transport that a later reattach has         *)
(* replaced as the session's client leaves session.client,                 *)
(* session.disconnectedAt, the persistence timer, the buffer and the       *)
(* registry as they were; only the close of the current client makes       *)
(* session.client null.                                                    *)
(***************************************************************************)
\* t was attached to s and a connection after it reattached to s
Replaced(t, s) ==
  /\ t \in DOMAIN ws
  /\ ws[t].session = s
  /\ \E t2 \in DOMAIN ws : t2 > t /\ ws[t2].sessionId = s /\ ws[t2].session = s

C37_StaleCloseChangesNothing ==
  [][\A t \in Transports, s \in Ids :
       /\ CloseEvent(t)
       /\ Replaced(t, s)
       /\ s \in sessions
       => /\ sessions' = sessions
          /\ sess'[s].client = sess[s].client
          /\ sess'[s].disconnectedAt = sess[s].disconnectedAt
          /\ sess'[s].cleanupTimeout = sess[s].cleanupTimeout
          /\ sess'[s].buffer = sess[s].buffer
          /\ timers' = timers]_vars

(***************************************************************************)
(* C40: every NEW_ENVIRON IS reply and every INFO message the proxy writes *)
(* upstream names the address of the client that attached to the session   *)
(* last: in every step, each IS or INFO subnegotiation in what the step    *)
(* writes upstream is the one for IPADDRESS with the remote address of the *)
(* latest transport attached to the session.                               *)
(***************************************************************************)
\* the remote address of the latest transport of ws attached to s
LatestAddress(transports, s) ==
  LET attached == {t \in DOMAIN transports : transports[t].session = s}
      last == CHOOSE t \in attached : \A t2 \in attached : t2 <= t
  IN  transports[last].remoteAddress

C40_RepliesCarryLatestAddress ==
  [][\A s \in Ids :
       s \in DOMAIN up /\ Len(up'[s].written) > Len(up[s].written)
       => LET new == Concat(SubSeq(up'[s].written, Len(up[s].written) + 1,
                                   Len(up'[s].written)))
              ip == LatestAddress(ws', s)
          IN  /\ Occurrences(<<IAC, SB, NEW_ENVIRON, NE_IS>>, new)
                   = Occurrences(IsReply(ip), new)
              /\ Occurrences(<<IAC, SB, NEW_ENVIRON, NE_INFO>>, new)
                   = Occurrences(InfoFor(ip), new)]_vars

\* a session created from one address and reattached from the other before
\* any negotiation (no INFO was written); IAC DO NEW_ENVIRON and a SEND
\* request came after, and the reply names the second address
C40_Witness ==
  \E s \in sessions :
    /\ Cardinality(DOMAIN ws) = 2
    /\ ws[1].remoteAddress = IpA /\ ws[1].session = s
    /\ ws[2].remoteAddress = IpB /\ ws[2].session = s
    /\ sess[s].telnetEnvHandler.newEnvironNegotiated
    /\ Occurrences(<<IAC, SB, NEW_ENVIRON, NE_INFO>>, Concat(up[s].written)) = 0
    /\ IsPrefix(IsReply(IpB), LastOf(up[s].written))

(***************************************************************************)
(* C38: after a reattach whose 'reconnected' message reports bufferedCount *)
(* n > 0, once the client has handled that message and the n replayed      *)
(* frames, every further data frame of that transport, which carries what  *)
(* upstream sent after the reattach, is emitted with the buffered flag     *)
(* false.                                                                  *)
(***************************************************************************)
\* the step is the client handling frame number k of transport t
HandlesFrame(t, k) ==
  /\ t \in DOMAIN ws
  /\ Handled(browser, t) = k - 1
  /\ Handled(browser', t) = k

C38_LiveMessagesNotBuffered ==
  [][\A t \in Transports : \A k \in 1..(MaxChunks + 2) :
       /\ HandlesFrame(t, k)
       /\ IsReconnected(ws[t].sent[1])
       /\ ws[t].sent[1].json[1].bufferedCount > 0
       /\ k > 1 + ws[t].sent[1].json[1].bufferedCount
       /\ ws[t].sent[k].json = <<>>
       => /\ Len(browser'.buffered) > Len(browser.buffered)
          /\ \A j \in (Len(browser.buffered) + 1)..Len(browser'.buffered) :
               ~browser'.buffered[j]]_vars

(***************************************************************************)
(* C39: after the user has called close(), and until the user calls        *)
(* connect() again, the client creates no WebSocket: a step taken while    *)
(* the user's last call was close(), other than a connect() by the user,   *)
(* leaves the number of WebSockets created as it was; in particular a      *)
(* reconnect timer set by an earlier close event opens no connection.      *)
(***************************************************************************)
C39_NoConnectionAfterClose ==
  [][browser.userClosed /\ browser'.userClosed
     => Len(browser'.sockets) = Len(browser.sockets)]_vars

====
